---------------------------- MODULE Spec2Model ----------------------------
(***************************************************************************)
(* Train Destination Alarm: the proximity alarm engine.                    *)
(*                                                                         *)
(*   distanceCalc.js   calculateDistance, getAlarmState                    *)
(*   useGeolocation.js useGeolocation, useSimulatedGeolocation (React      *)
(*                     hooks owning the watch handle / interval timer)     *)
(*   sw.js             the service worker: install, message and            *)
(*                     notificationclick listeners                         *)
(*   server.js etc.    the backends: live status, demo route, health       *)
(*                                                                         *)
(* Units.  Distances are whole metres (the code's kilometres times 1000).  *)
(* Coordinates used for distance computation are counted in metres of arc  *)
(* (1/6371 milliradian of latitude or longitude), so that the distance of  *)
(* two points of one meridian is the difference of their latitudes; the    *)
(* haversine formula is evaluated in exact arithmetic and its result is    *)
(* kept as the whole metre at or above it.                                 *)
(***************************************************************************)
EXTENDS Integers, Sequences, FiniteSets, TLC

VARIABLES
    \* ---- evaluation of the pure functions of distanceCalc.js
    fnPhase, fnPos, fnDest, fnPrev, fnDistDest, fnDistPrev, fnState,
    \* ---- foreground: the alarm state machine of the running trip
    destStation,    \* coordinates of the destination
    prevStation,    \* coordinates of the station before the destination
    alarmState,     \* safe | approaching | pre-alert | alarm | snoozed
    distToDest,     \* latest known distance to the destination
    distToPrev,     \* latest known distance to the previous station
    snoozeTimer,    \* the snooze timer: [status, duration, elapsed]
    clientInbox,    \* per window: messages posted by the service worker, not yet handled
    \* ---- background: the service worker (sw.js)
    swInbox,        \* messages posted by the window, not yet handled
    notifications,  \* the notifications on display
    cache,          \* the entries of the cache train-alarm-v1: [url, body]
    cacheWrites,    \* runs of cacheRouteData waiting at an await: [body, stage]
    swLog,          \* what cacheRouteData wrote to the console
    sentRoute,      \* payload of the CACHE_ROUTE message the window sent last
    windows,        \* the window clients of the service worker
    clickTasks,     \* calls of clients.matchAll not yet resolved: [action]
    \* ---- useSimulatedGeolocation: props, state, ref, and the browser's timers
    stations, isActive, speedMultiplier,
    simPosition, currentSegment, progress,
    intervalRef,    \* intervalRef.current
    simHasCleanup,  \* the last run of the effect returned a cleanup
    intervals,      \* setInterval timers not cleared: [id, seg, step, ms]
    nextTimerId,
    \* ---- useGeolocation: props, state, ref, and the browser's watches
    isTracking, distanceToDestKm,
    geoPosition, geoError, accuracy,
    watchIdRef,     \* watchIdRef.current
    watches,        \* watchPosition watches not cleared: [id, options]
    nextWatchId,
    geolocation,    \* navigator.geolocation is there
    mounted,        \* the component that calls the hooks is mounted
    \* ---- backend: the route provider and the last HTTP exchange
    backend,        \* which of the two servers of the repository runs
    provider,       \* state of the live provider
    apiKey,         \* RAPIDAPI_KEY is set
    response,       \* the response sent last
    pending,        \* requests whose handler awaits the provider: [route, trainNo]
    pendingEffects  \* effect cleanups and effects of the commit under way

fnVars == <<fnPhase, fnPos, fnDest, fnPrev, fnDistDest, fnDistPrev, fnState>>

fgVars == <<destStation, prevStation, alarmState, distToDest, distToPrev,
            snoozeTimer, clientInbox>>

swStore == <<cache, cacheWrites, swLog, sentRoute>>

swClients == <<windows, clickTasks>>

swVars == <<swInbox, notifications, swStore, swClients>>

simVars == <<stations, isActive, speedMultiplier, simPosition, currentSegment,
             progress, intervalRef, simHasCleanup, intervals, nextTimerId>>

geoVars == <<isTracking, distanceToDestKm, geoPosition, geoError, accuracy,
             watchIdRef, watches, nextWatchId, geolocation, mounted>>

apiVars == <<backend, provider, apiKey, response, pending>>

hookVars == <<simVars, geoVars, pendingEffects>>

vars == <<fnVars, fgVars, swVars, hookVars, apiVars>>

(***************************************************************************)
(* JavaScript Numbers: IEEE-754 binary64 arithmetic, round to nearest,     *)
(* ties to even.  A finite Number is sign * mant * 2^exp with mant a       *)
(* natural number of exactly 53 bits (or zero), held in limbs of 14 bits,  *)
(* least significant first.  NaN is a value of its own; subnormals and     *)
(* infinities do not occur for the coordinates of the model.               *)
(***************************************************************************)

\* Bits of the significand of a binary64.
PRECISION == 53

LIMB_BITS == 14
BASE == 2^LIMB_BITS

RECURSIVE BTrim(_)
BTrim(a) ==
    IF a = <<>> THEN <<>>
    ELSE IF a[Len(a)] = 0 THEN BTrim(SubSeq(a, 1, Len(a) - 1))
    ELSE a

RECURSIVE BFromNat(_)
BFromNat(n) == IF n = 0 THEN <<>> ELSE <<n % BASE>> \o BFromNat(n \div BASE)

Limb(a, i) == IF i <= Len(a) THEN a[i] ELSE 0

RECURSIVE BAddC(_, _, _, _)
BAddC(a, b, i, c) ==
    IF i > Len(a) /\ i > Len(b) THEN (IF c = 0 THEN <<>> ELSE <<c>>)
    ELSE LET s == Limb(a, i) + Limb(b, i) + c
         IN  <<s % BASE>> \o BAddC(a, b, i + 1, s \div BASE)

BAdd(a, b) == BAddC(a, b, 1, 0)

RECURSIVE BSubC(_, _, _, _)
BSubC(a, b, i, borrow) ==
    IF i > Len(a) THEN <<>>
    ELSE LET d == Limb(a, i) - Limb(b, i) - borrow
         IN  IF d < 0 THEN <<d + BASE>> \o BSubC(a, b, i + 1, 1)
             ELSE <<d>> \o BSubC(a, b, i + 1, 0)

\* a - b, for a >= b.
BSub(a, b) == BTrim(BSubC(a, b, 1, 0))

RECURSIVE BCmpAt(_, _, _)
BCmpAt(a, b, i) ==
    IF i = 0 THEN 0
    ELSE IF a[i] > b[i] THEN 1
    ELSE IF a[i] < b[i] THEN -1
    ELSE BCmpAt(a, b, i - 1)

\* -1, 0 or 1 as a < b, a = b or a > b.
BCmp(a, b) ==
    IF Len(a) > Len(b) THEN 1
    ELSE IF Len(a) < Len(b) THEN -1
    ELSE BCmpAt(a, b, Len(a))

RECURSIVE BMulC(_, _, _, _)
BMulC(a, k, i, c) ==
    IF i > Len(a) THEN (IF c = 0 THEN <<>> ELSE <<c>>)
    ELSE LET p == a[i] * k + c
         IN  <<p % BASE>> \o BMulC(a, k, i + 1, p \div BASE)

\* a * k, for k < BASE.
BMulSmall(a, k) == BTrim(BMulC(a, k, 1, 0))

BShlLimbs(a, n) == IF a = <<>> THEN <<>> ELSE [i \in 1..n |-> 0] \o a

\* a * 2^n.
BShl(a, n) == BShlLimbs(BMulSmall(a, 2^(n % LIMB_BITS)), n \div LIMB_BITS)

RECURSIVE BMulAt(_, _, _)
BMulAt(a, b, j) ==
    IF j > Len(b) THEN <<>>
    ELSE BAdd(BShlLimbs(BMulSmall(a, b[j]), j - 1), BMulAt(a, b, j + 1))

BMul(a, b) == BMulAt(a, b, 1)

RECURSIVE BDivRem(_, _, _)
BDivRem(a, d, i) ==
    IF i > Len(a) THEN << <<>>, 0 >>
    ELSE LET hi == BDivRem(a, d, i + 1)
             cur == hi[2] * BASE + a[i]
         IN  << <<cur \div d>> \o hi[1], cur % d >>

BTrimQuotient(x) == <<BTrim(x[1]), x[2]>>

\* <<a div d, a mod d>>, for d <= BASE.
BDivSmall(a, d) == BTrimQuotient(BDivRem(a, d, 1))

\* a div 2^n.
BShr(a, n) ==
    IF n \div LIMB_BITS >= Len(a) THEN <<>>
    ELSE BDivSmall(SubSeq(a, n \div LIMB_BITS + 1, Len(a)), 2^(n % LIMB_BITS))[1]

RECURSIVE SmallBitLen(_)
SmallBitLen(x) == IF x = 0 THEN 0 ELSE 1 + SmallBitLen(x \div 2)

BBitLen(a) ==
    IF a = <<>> THEN 0 ELSE LIMB_BITS * (Len(a) - 1) + SmallBitLen(a[Len(a)])

BIsOdd(a) == a # <<>> /\ a[1] % 2 = 1

\* A coordinate: null (the value null), undefined (the key is absent), the
\* Number NaN, or the Number (-1)^sign * mant * 2^exp.
Num(sign, exp, mant) ==
    [null |-> FALSE, undefined |-> FALSE, nan |-> FALSE,
     sign |-> sign, exp |-> exp, mant |-> mant]

DZero(sign) == Num(sign, 0, <<>>)

JSNull == [DZero(0) EXCEPT !.null = TRUE]

JSUndefined == [DZero(0) EXCEPT !.undefined = TRUE]

NaN == [DZero(0) EXCEPT !.nan = TRUE]

\* The Number nearest to (-1)^sign * R * 2^e, ties to even.
DRound(sign, R, e) ==
    LET n == BBitLen(R) IN
    IF n = 0 THEN DZero(sign)
    ELSE IF n <= PRECISION
        THEN Num(sign, e - (PRECISION - n), BShl(R, PRECISION - n))
    ELSE LET d == n - PRECISION
             q == BShr(R, d)
             rem == BSub(R, BShl(q, d))
             c == BCmp(rem, BShl(<<1>>, d - 1))
             q2 == IF c > 0 \/ (c = 0 /\ BIsOdd(q)) THEN BAdd(q, <<1>>) ELSE q
         IN  IF BBitLen(q2) > PRECISION
             THEN Num(sign, e + d + 1, BShr(q2, 1))
             ELSE Num(sign, e + d, q2)

\* ToNumber: null converts to +0, undefined to NaN.
ToNumber(x) == IF x.null THEN DZero(0) ELSE IF x.undefined THEN NaN ELSE x

DNeg(x) == IF x.nan THEN NaN ELSE [x EXCEPT !.sign = 1 - @]

\* x + y
DAdd(x, y) ==
    IF x.nan \/ y.nan THEN NaN
    ELSE IF x.mant = <<>> /\ y.mant = <<>>
        THEN DZero(IF x.sign = 1 /\ y.sign = 1 THEN 1 ELSE 0)
    ELSE IF x.mant = <<>> THEN y
    ELSE IF y.mant = <<>> THEN x
    ELSE LET e == IF x.exp < y.exp THEN x.exp ELSE y.exp
             X == BShl(x.mant, x.exp - e)
             Y == BShl(y.mant, y.exp - e)
             c == BCmp(X, Y)
         IN  IF x.sign = y.sign THEN DRound(x.sign, BAdd(X, Y), e)
             ELSE IF c = 0 THEN DZero(0)
             ELSE IF c > 0 THEN DRound(x.sign, BSub(X, Y), e)
             ELSE DRound(y.sign, BSub(Y, X), e)

\* x - y
DSub(x, y) == DAdd(x, DNeg(y))

\* x * y
DMul(x, y) ==
    LET sign == IF x.sign = y.sign THEN 0 ELSE 1 IN
    IF x.nan \/ y.nan THEN NaN
    ELSE IF x.mant = <<>> \/ y.mant = <<>> THEN DZero(sign)
    ELSE DRound(sign, BMul(x.mant, y.mant), x.exp + y.exp)

\* The Number n, for a natural number n.
DFromNat(n) == DRound(0, BFromNat(n), 0)

\* n / d for natural numbers n and 0 < d <= BASE: the quotient is cut below
\* its 60th fractional bit, with one more bit telling whether anything was cut.
DDivNat(n, d) ==
    LET x == BDivSmall(BShl(BFromNat(n), 60), d)
        sticky == IF x[2] = 0 THEN <<>> ELSE <<1>>
    IN  DRound(0, BAdd(BShl(x[1], 1), sticky), -61)

(***************************************************************************)
(* Real numbers in fixed point: the natural number v, held in limbs,       *)
(* stands for v / 2^(LIMB_BITS * FRACTION_LIMBS), cut below its last bit.  *)
(***************************************************************************)

FRACTION_LIMBS == 5

\* 1
FOne == [i \in 1..FRACTION_LIMBS |-> 0] \o <<1>>

\* p without its FRACTION_LIMBS lowest limbs.
FCut(p) ==
    IF Len(p) <= FRACTION_LIMBS THEN <<>>
    ELSE SubSeq(p, FRACTION_LIMBS + 1, Len(p))

\* a * b
FMul(a, b) == FCut(BMul(a, b))

\* x - x^3/3! + x^5/5! - ... from the term of degree 2k - 1 on, until the
\* terms vanish: plus and minus are the sums of the terms added and taken off.
RECURSIVE SinSum(_, _, _, _, _)
SinSum(x2, term, k, plus, minus) ==
    IF term = <<>> THEN BSub(plus, minus)
    ELSE SinSum(x2, BDivSmall(FMul(term, x2), (2 * k) * (2 * k + 1))[1], k + 1,
                IF k % 2 = 1 THEN BAdd(plus, term) ELSE plus,
                IF k % 2 = 1 THEN minus ELSE BAdd(minus, term))

\* Math.sin(x), for 0 <= x <= pi.
Sin(x) == SinSum(FMul(x, x), x, 1, <<>>, <<>>)

\* x * x
Square(x) == FMul(x, x)

(***************************************************************************)
(* distanceCalc.js                                                         *)
(***************************************************************************)

\* JavaScript null / undefined coordinate (lat == null is true of both).
NULL == -1

\* JavaScript Infinity: greater than every finite distance of the model, so
\* that Infinity <= k is false for every threshold k, as in IEEE arithmetic.
Infinity == 9999999

\* The thresholds of getAlarmState, in metres.
ALARM_M == 2000
PRE_ALERT_M == 500
APPROACH_M == 15000

Abs(x) == IF x < 0 THEN -x ELSE x

\* Coordinates are whole metres of arc on the sphere of EARTH_RADIUS_KM: the
\* coordinate n is the angle of n / 6371000 radians (toRadians of
\* n / 6371000 * 180 / pi degrees), and distances are in metres.

\* EARTH_RADIUS_KM, in metres, as 12742 * 1000 / 2.
EARTH_DIAMETER_KM == 12742

\* The angle of n metres of arc, halved: n / (2 * 6371000) radians.
HalfAngle(n) ==
    BDivSmall(BDivSmall(BShlLimbs(BFromNat(n), FRACTION_LIMBS), EARTH_DIAMETER_KM)[1],
              1000)[1]

\* Math.sin(x / 2) * Math.sin(x / 2) for the angle x of n metres of arc.
SinSqHalf(n) == Square(Sin(HalfAngle(n)))

\* Math.cos(x) for an angle x given by h = sin^2(x / 2): 1 - 2 h.
Cos(h) == BSub(FOne, BShl(h, 1))

\* a, from h = sin^2 of the halves of dphi, dlambda, phi1 and phi2.
HaversineA(h) == BAdd(h[1], FMul(FMul(Cos(h[3]), Cos(h[4])), h[2]))

\* sin^2 of the half of each angle of ns, given in metres of arc.
SinSqHalves(ns) == [i \in 1..Len(ns) |-> SinSqHalf(ns[i])]

\* The least arc of lo..hi, in metres, with a <= sin^2 of its half angle.
RECURSIVE LeastArc(_, _, _)
LeastArc(a, lo, hi) ==
    IF lo >= hi THEN hi
    ELSE LET mid == (lo + hi) \div 2
         IN  IF BCmp(a, SinSqHalf(mid)) <= 0 THEN LeastArc(a, lo, mid)
             ELSE LeastArc(a, mid + 1, hi)

\* EARTH_RADIUS_KM * c for c = 2 atan2(sqrt a, sqrt(1 - a)), that is
\* sin^2(c / 2) = a, with a = sin^2(dphi/2) + cos(phi1) cos(phi2) sin^2(dlambda/2):
\* the great-circle distance, as the whole metre at or above it.  The distance
\* lies between |dphi| and |dphi| + |dlambda| metres of arc.  The Number the
\* code returns is within rounding errors of the exact distance; a whole metre
\* compares with a whole-metre threshold as the exact distance does.
Haversine(lat1, lon1, lat2, lon2) ==
    LET dLat == Abs(lat2 - lat1)
        dLon == Abs(lon2 - lon1)
    IN  LeastArc(HaversineA(SinSqHalves(<<dLat, dLon, Abs(lat1), Abs(lat2)>>)),
                 dLat, dLat + dLon)

\* getAlarmState testing the previous station before the destination.
getAlarmState_PrevFirst(distToDestKm, distToPrevKm) ==
    IF distToPrevKm <= PRE_ALERT_M THEN "pre-alert"
    ELSE IF distToDestKm <= ALARM_M THEN "alarm"
    ELSE IF distToDestKm <= APPROACH_M THEN "approaching"
    ELSE "safe"

\* getAlarmState with the 50 km accuracy bucket as its approach threshold.
getAlarmState_WideApproach(distToDestKm, distToPrevKm) ==
    IF distToDestKm <= ALARM_M THEN "alarm"
    ELSE IF distToPrevKm <= PRE_ALERT_M THEN "pre-alert"
    ELSE IF distToDestKm <= 50000 THEN "approaching"
    ELSE "safe"

\* getAlarmState with a strict alarm threshold.
getAlarmState_Strict(distToDestKm, distToPrevKm) ==
    IF distToDestKm < ALARM_M THEN "alarm"
    ELSE IF distToPrevKm <= PRE_ALERT_M THEN "pre-alert"
    ELSE IF distToDestKm <= APPROACH_M THEN "approaching"
    ELSE "safe"

getAlarmState(distToDestKm, distToPrevKm) ==
    IF distToDestKm <= ALARM_M THEN "alarm"
    ELSE IF distToPrevKm <= PRE_ALERT_M THEN "pre-alert"
    ELSE IF distToDestKm <= APPROACH_M THEN "approaching"
    ELSE "safe"

(***************************************************************************)
(* Inputs of the pure functions.                                           *)
(***************************************************************************)

\* Distances on both sides of every threshold, and the sentinel.
DistanceSamples == {0, 500, 501, 2000, 2001, 15000, 15001, 60000, Infinity}

\* Latitudes and longitudes of position samples and stations; NULL is a
\* missing coordinate.
LatVals == {NULL, 0, 500, 2000, 16500, 17000}
LonVals == {NULL, 0, 1500}
Coords == [lat : LatVals, lon : LonVals]

NoCoord == [lat |-> NULL, lon |-> NULL]

Missing(c) == c.lat = NULL \/ c.lon = NULL

\* Trips: the station before the destination and the destination.
AlarmRoutes ==
    { <<[lat |-> 0, lon |-> 0], [lat |-> 20000, lon |-> 0]>>,
      <<[lat |-> 0, lon |-> 0], [lat |-> 2000, lon |-> 0]>>,
      <<[lat |-> NULL, lon |-> NULL], [lat |-> 20000, lon |-> 0]>> }

\* Position samples: on the meridian of the stations, one 1500 m east of it
\* (2122 m from the station at 20000, 1500 m south of it), and a missing one.
SamplePositions ==
    { [lat |-> x, lon |-> 0] : x \in {0, 501, 5000, 18000, 18001, 40000} }
        \cup {[lat |-> 18500, lon |-> 1500]}
        \cup {NoCoord}

\* The positions and stations that have both coordinates.
Points ==
    {c \in Coords \cup SamplePositions \cup UNION {{r[1], r[2]} : r \in AlarmRoutes} :
        ~Missing(c)}

\* An order of the points, to list each pair once.
Before(p, q) == p.lat < q.lat \/ (p.lat = q.lat /\ p.lon <= q.lon)

\* Haversine over the pairs of positions and stations, computed once.
HaversineTable ==
    [pq \in {x \in Points \X Points : Before(x[1], x[2])} |->
        Haversine(pq[1].lat, pq[1].lon, pq[2].lat, pq[2].lon)] @@ <<>>

\* Haversine, which is symmetric in its two points, read from the table: of
\* points that have both coordinates.
HaversineOf(lat1, lon1, lat2, lon2) ==
    LET p == [lat |-> lat1, lon |-> lon1]
        q == [lat |-> lat2, lon |-> lon2]
    IN  HaversineTable[IF Before(p, q) THEN <<p, q>> ELSE <<q, p>>]

\* calculateDistance guarding the latitudes only: a null longitude counts as 0
\* in lon2 - lon1.
calculateDistance_LatOnly(lat1, lon1, lat2, lon2) ==
    IF lat1 = NULL \/ lat2 = NULL
    THEN Infinity
    ELSE HaversineOf(lat1, IF lon1 = NULL THEN 0 ELSE lon1,
                     lat2, IF lon2 = NULL THEN 0 ELSE lon2)

calculateDistance(lat1, lon1, lat2, lon2) ==
    IF lat1 = NULL \/ lon1 = NULL \/ lat2 = NULL \/ lon2 = NULL
    THEN Infinity
    ELSE HaversineOf(lat1, lon1, lat2, lon2)


\* A position sample of the simulation; null before the first one.
NoSample == [null |-> TRUE, lat |-> JSNull, lon |-> JSNull]

\* The hooks before any trip: mounted with isActive false and no stations.
\* The error state of useGeolocation when it holds null.
NoError == "null"

\* useGeolocation mounted with its default props: the effect found isTracking
\* false and has started no watch.
GeoIdle ==
    /\ isTracking = FALSE
    /\ distanceToDestKm = Infinity
    /\ geoPosition = NoCoord
    /\ geoError = NoError
    /\ accuracy = NULL
    /\ watchIdRef = NULL
    /\ watches = {}
    /\ nextWatchId = 1
    /\ mounted = TRUE

HooksIdle ==
    /\ GeoIdle
    /\ geolocation = TRUE
    /\ stations = <<>>
    /\ isActive = FALSE
    /\ speedMultiplier = 200
    /\ simPosition = NoSample
    /\ currentSegment = 0
    /\ progress = DZero(0)
    /\ intervalRef = NULL
    /\ simHasCleanup = FALSE
    /\ intervals = {}
    /\ nextTimerId = 1
    /\ pendingEffects = <<>>

\* The snooze timer before it is first started; its status is then pending,
\* and in the end fired or cancelled.
NoTimer == [status |-> "idle", duration |-> 0, elapsed |-> 0]

\* The parts of the system at rest, for the specifications that leave them alone.
\* No CACHE_ROUTE message was sent yet.
NoRoute == [none |-> TRUE]

\* No request was made yet.
NoResponse == [status |-> 0]

BackendIdle ==
    /\ backend = "bridge"
    /\ provider = "reachable"
    /\ apiKey = TRUE
    /\ response = NoResponse
    /\ pending = {}

\* The windows of the site: the one that runs the trip, and another one.
Clients == {"app", "other"}

\* No message is waiting in any window.
NoMessages == [c \in Clients |-> <<>>]

STATIC_ASSETS == {"/", "/index.html", "/alarm-tone.mp3", "/manifest.json"}

\* The cache train-alarm-v1 after the install listener: cache.addAll stored
\* every static asset, or it rejected (the listener catches it) and stored
\* none.
InstalledCaches == { {[url |-> u, body |-> [asset |-> u]] : u \in STATIC_ASSETS}, {} }

\* The service worker installed and activated, nothing posted or shown yet.
SwIdle ==
    /\ clientInbox = NoMessages
    /\ swInbox = <<>>
    /\ notifications = {}
    /\ cacheWrites = <<>>
    /\ swLog = {}
    /\ sentRoute = NoRoute
    /\ clickTasks = <<>>

\* The window and the service worker before a trip: the static assets are
\* cached and the window of the trip is the one client.
FrontIdle ==
    /\ destStation = NoCoord
    /\ prevStation = NoCoord
    /\ alarmState = "safe"
    /\ distToDest = Infinity
    /\ distToPrev = Infinity
    /\ snoozeTimer = NoTimer
    /\ SwIdle
    /\ cache = {[url |-> u, body |-> [asset |-> u]] : u \in STATIC_ASSETS}
    /\ windows = {"app"}

AlarmIdle == FrontIdle /\ BackendIdle

FnIdle ==
    /\ fnPhase = "idle"
    /\ fnState = "none"
    /\ fnPos = NoCoord /\ fnDest = NoCoord /\ fnPrev = NoCoord
    /\ fnDistDest = Infinity /\ fnDistPrev = Infinity

\* The inputs are drawn here: either a pair of distances, or a position sample
\* with the coordinates of the destination and of the station before it.
FnInit ==
    /\ fnState = "none"
    /\ AlarmIdle
    /\ HooksIdle
    /\ \/ /\ fnPhase = "distances"
          /\ fnDistDest \in DistanceSamples
          /\ fnDistPrev \in DistanceSamples
          /\ fnPos = NoCoord /\ fnDest = NoCoord /\ fnPrev = NoCoord
       \/ /\ fnPhase = "sample"
          /\ fnPos \in Coords /\ fnDest \in Coords /\ fnPrev \in Coords
          /\ fnDistDest = Infinity /\ fnDistPrev = Infinity

\* getAlarmState applied to a pair of distances.
FnEvalState ==
    /\ fnPhase = "distances"
    /\ fnState' = getAlarmState(fnDistDest, fnDistPrev)
    /\ fnPhase' = "state"
    /\ UNCHANGED <<fnPos, fnDest, fnPrev, fnDistDest, fnDistPrev>>
    /\ UNCHANGED <<fgVars, swVars, hookVars, apiVars>>

\* One position sample: the distances to the destination and to the station
\* before it, then the alarm state.
FnEvalSample ==
    /\ fnPhase = "sample"
    /\ LET d1 == calculateDistance(fnPos.lat, fnPos.lon, fnDest.lat, fnDest.lon)
           d2 == calculateDistance(fnPos.lat, fnPos.lon, fnPrev.lat, fnPrev.lon)
       IN  /\ fnDistDest' = d1
           /\ fnDistPrev' = d2
           /\ fnState' = getAlarmState(d1, d2)
    /\ fnPhase' = "sampled"
    /\ UNCHANGED <<fnPos, fnDest, fnPrev>>
    /\ UNCHANGED <<fgVars, swVars, hookVars, apiVars>>

FnNext == FnEvalState \/ FnEvalSample

SpecFn == FnInit /\ [][FnNext]_vars


(***************************************************************************)
(* Properties of the pure functions (specification SpecFn).                *)
(***************************************************************************)

FnEvaluated == fnPhase \in {"state", "sampled"}

\* C1: every pair of distances, the sentinel included, maps to exactly one
\* state, the one of the first matching rule: distToDest <= 2 km alarm (whatever
\* distToPrev is), else distToPrev <= 0.5 km pre-alert, else distToDest <= 15 km
\* approaching, else safe.
C1_FirstMatchWins ==
    FnEvaluated =>
        /\ fnState \in {"alarm", "pre-alert", "approaching", "safe"}
        /\ (fnState = "alarm") <=> (fnDistDest <= 2000)
        /\ (fnState = "pre-alert") <=> (fnDistDest > 2000 /\ fnDistPrev <= 500)
        /\ (fnState = "approaching") <=>
               (fnDistDest > 2000 /\ fnDistDest <= 15000 /\ fnDistPrev > 500)
        /\ (fnState = "safe") <=> (fnDistDest > 15000 /\ fnDistPrev > 500)

\* C1 witness: both the alarm rule and the pre-alert rule match, alarm wins.
C1_Witness ==
    /\ fnPhase = "state"
    /\ fnDistDest = 2000 /\ fnDistPrev = 0
    /\ fnState = "alarm"

\* C2 as stated: distToDest > 15 km gives safe for every distToPrev.
C2_Original ==
    (FnEvaluated /\ fnDistDest > 15000) => fnState = "safe"

\* C2 amended: distToDest > 15 km gives safe when distToPrev > 0.5 km, and
\* pre-alert when distToPrev <= 0.5 km.
C2_SafeBeyondApproach ==
    (FnEvaluated /\ fnDistDest > 15000) =>
        /\ fnDistPrev > 500 => fnState = "safe"
        /\ fnDistPrev <= 500 => fnState = "pre-alert"

\* C2 witness: just beyond both thresholds.
C2_Witness ==
    /\ fnPhase = "state"
    /\ fnDistDest = 15001 /\ fnDistPrev = 501
    /\ fnState = "safe"

FnSomeMissing == Missing(fnPos) \/ Missing(fnDest) \/ Missing(fnPrev)

\* Each distance of a sample is the sentinel exactly when one of its two
\* endpoints misses a coordinate.
FnSentinel ==
    /\ (Missing(fnPos) \/ Missing(fnDest)) <=> (fnDistDest = Infinity)
    /\ (Missing(fnPos) \/ Missing(fnPrev)) <=> (fnDistPrev = Infinity)

\* C3 as stated: a coordinate missing on any endpoint gives the sentinel and
\* the state safe, whatever the other distance is.
C3_Original ==
    (fnPhase = "sampled" /\ FnSomeMissing) =>
        (FnSentinel /\ fnState = "safe")

\* C3 amended: a missing coordinate makes the distance it enters the sentinel
\* (and only a missing coordinate does); the state is safe when the distance to
\* the destination is the sentinel and the one to the previous station is the
\* sentinel or above 0.5 km, in particular whenever the position sample misses
\* a coordinate.  The sentinel itself never matches a rule: with the
\* destination missing the state is pre-alert within 0.5 km of the previous
\* station, and with only the previous station missing it is the state that
\* distToDest alone gives.
C3_MissingCoordinate ==
    (fnPhase = "sampled" /\ FnSomeMissing) =>
        /\ FnSentinel
        /\ Missing(fnPos) => fnState = "safe"
        /\ (fnDistDest = Infinity /\ fnDistPrev > 500) => fnState = "safe"
        /\ (fnDistDest = Infinity /\ fnDistPrev <= 500) => fnState = "pre-alert"
        /\ (fnDistPrev = Infinity /\ fnDistDest # Infinity) =>
               fnState = (IF fnDistDest <= 2000 THEN "alarm"
                          ELSE IF fnDistDest <= 15000 THEN "approaching"
                          ELSE "safe")

\* C3 witness: the destination has no longitude, the sample is 16.5 km from
\* the previous station.
C3_Witness ==
    /\ fnPhase = "sampled"
    /\ fnDest = [lat |-> 0, lon |-> NULL]
    /\ fnPos = [lat |-> 0, lon |-> 0]
    /\ fnPrev = [lat |-> 16500, lon |-> 0]
    /\ fnDistDest = Infinity /\ fnDistPrev = 16500
    /\ fnState = "safe"


(***************************************************************************)
(* The service worker (sw.js) and the alarm state machine of the window.   *)
(*                                                                         *)
(* The window's page (frontend/public/index.html) holds the alarm state;   *)
(* its operations are modelled from the design: sections 4.3 and 4.4.      *)
(***************************************************************************)

\* Messages in flight in either direction.
MaxInbox == 2

\* Advances of the clock per snooze duration.
TicksPerSnooze == 2

\* notificationclick: the duration the snooze action posts.
SNOOZE_MS == 120000

TickMs == SNOOZE_MS \div TicksPerSnooze

\* The dispatch, if any, of a transition of the alarm state from `old` to `new`.
Dispatch(old, new, d1) ==
    IF new = old THEN <<>>
    ELSE IF new = "alarm"
        THEN << [type |-> "TRIGGER_ALARM",
                 payload |-> [stationName |-> "dest", distance |-> d1]] >>
    ELSE IF new = "pre-alert"
        THEN << [type |-> "PRE_ALERT",
                 payload |-> [prevStationName |-> "prev", destStationName |-> "dest"]] >>
    ELSE <<>>

\* A position sample arrives: both distances are recomputed and the rule is
\* re-applied; while snoozed the state is held.
FgSample(pos) ==
    LET d1 == calculateDistance(pos.lat, pos.lon, destStation.lat, destStation.lon)
        d2 == calculateDistance(pos.lat, pos.lon, prevStation.lat, prevStation.lon)
        new == IF alarmState = "snoozed" THEN "snoozed" ELSE getAlarmState(d1, d2)
    IN  /\ Len(swInbox) < MaxInbox
        /\ distToDest' = d1
        /\ distToPrev' = d2
        /\ alarmState' = new
        /\ swInbox' = swInbox \o Dispatch(alarmState, new, d1)
        /\ UNCHANGED <<destStation, prevStation, snoozeTimer, clientInbox, notifications,
                       swStore, swClients>>

\* dismiss: the state is forced to safe and a pending snooze timer is cancelled.
FgDismiss ==
    /\ alarmState' = "safe"
    /\ snoozeTimer' = IF snoozeTimer.status = "pending"
                      THEN [snoozeTimer EXCEPT !.status = "cancelled"]
                      ELSE snoozeTimer

\* snooze(durationMs = 120000): alarm -> snoozed, and the timer is started.
FgSnooze(durationMs) ==
    IF alarmState = "alarm"
    THEN /\ alarmState' = "snoozed"
         /\ snoozeTimer' = [status |-> "pending", duration |-> durationMs, elapsed |-> 0]
    ELSE UNCHANGED <<alarmState, snoozeTimer>>

\* The window of the trip handles the next message of the service worker.
FgMessage ==
    /\ clientInbox["app"] # <<>>
    /\ LET msg == Head(clientInbox["app"])
       IN  IF msg.type = "DISMISS_ALARM" THEN FgDismiss
           ELSE IF msg.type = "SNOOZE_ALARM"
               THEN FgSnooze(IF "duration" \in DOMAIN msg THEN msg.duration ELSE SNOOZE_MS)
           ELSE UNCHANGED <<alarmState, snoozeTimer>>
    /\ clientInbox' = [clientInbox EXCEPT !["app"] = Tail(@)]
    /\ UNCHANGED <<destStation, prevStation, distToDest, distToPrev, swVars>>

\* The other window takes the next message posted to it.
OtherMessage ==
    /\ clientInbox["other"] # <<>>
    /\ clientInbox' = [clientInbox EXCEPT !["other"] = Tail(@)]
    /\ UNCHANGED <<destStation, prevStation, alarmState, distToDest, distToPrev,
                   snoozeTimer, swVars>>

\* Time passes while a snooze timer is pending.
Advance ==
    /\ snoozeTimer.status = "pending"
    /\ snoozeTimer.elapsed < snoozeTimer.duration
    /\ snoozeTimer' = [snoozeTimer EXCEPT !.elapsed = @ + TickMs]
    /\ UNCHANGED <<destStation, prevStation, alarmState, distToDest, distToPrev,
                   clientInbox, swVars>>

\* The snooze timer expires: the rule is re-applied to the latest distances.
SnoozeExpire ==
    /\ snoozeTimer.status = "pending"
    /\ snoozeTimer.elapsed >= snoozeTimer.duration
    /\ Len(swInbox) < MaxInbox
    /\ LET new == getAlarmState(distToDest, distToPrev)
       IN  /\ alarmState' = new
           /\ swInbox' = swInbox \o Dispatch(alarmState, new, distToDest)
    /\ snoozeTimer' = [snoozeTimer EXCEPT !.status = "fired"]
    /\ UNCHANGED <<destStation, prevStation, distToDest, distToPrev, clientInbox,
                   notifications, swStore, swClients>>

\* showNotification adding the notification to those on display.
showNotification_Stack(shown, n) == shown \cup {n}

\* registration.showNotification: a notification replaces the one of its tag.
showNotification(shown, n) == {m \in shown : m.tag # n.tag} \cup {n}

\* distance.toFixed(1) for a distance of d metres, the Number nearest to
\* d / 1000: the number of tenths nearest to the exact value of that Number,
\* the larger one when two are as near.
ToFixed1(d) ==
    LET x == DDivNat(d, 1000)
        notBelow == BCmp(BMulSmall(x.mant, 1000), BShl(BFromNat(d), -x.exp)) >= 0
        tenths == IF d % 100 > 50 \/ (d % 100 = 50 /\ notBelow)
                  THEN d \div 100 + 1 ELSE d \div 100
    IN  ToString(tenths \div 10) \o "." \o ToString(tenths % 10)

\* notification.data of a notification shown without data.
NoData == [null |-> TRUE]

\* The body of the notification is built from payload.distance before
\* showNotification is called: distance.toFixed throws a TypeError when the
\* payload has no distance, and nothing is shown.
showAlarmNotification(shown, payload) ==
    IF "distance" \notin DOMAIN payload
    THEN shown
    ELSE showNotification(shown,
            [tag |-> "destination-alarm",
             body |-> payload.stationName \o " is " \o
                      (IF payload.distance < 1000
                       THEN ToString(payload.distance) \o "m"
                       ELSE ToFixed1(payload.distance) \o "km") \o " away. Get ready!",
             requireInteraction |-> TRUE,
             actions |-> {"dismiss", "snooze"},
             data |-> [stationName |-> payload.stationName,
                       distance |-> payload.distance]])

showPreAlertNotification(shown, payload) ==
    showNotification(shown,
        [tag |-> "pre-alert",
         body |-> "Leaving " \o payload.prevStationName \o ". Your destination " \o
                  payload.destStationName \o " is the next stop!",
         requireInteraction |-> FALSE,
         actions |-> {},
         data |-> NoData])

\* The message listener without its PRE_ALERT branch.
OnMessage_NoPreAlert(shown, msg) ==
    IF msg.type = "TRIGGER_ALARM"
    THEN showAlarmNotification(shown, msg.payload) ELSE shown

\* The message listener run on one message.
OnMessage(shown, msg) ==
    LET s1 == IF msg.type = "TRIGGER_ALARM"
              THEN showAlarmNotification(shown, msg.payload) ELSE shown
        s2 == IF msg.type = "PRE_ALERT"
              THEN showPreAlertNotification(s1, msg.payload) ELSE s1
    IN  s2

\* The key of the one route slot.
ROUTE_URL == "/cached-route"

\* Runs of cacheRouteData under way at once.
MaxWrites == 2

\* JSON.stringify(routeData), as the body of the Response: undefined gives
\* undefined and the Response has an empty body.
JSONStringify(v) == IF "undefined" \in DOMAIN v THEN [text |-> <<>>] ELSE [text |-> <<v>>]

\* JSON.parse of a body.
JSONParse(b) == IF b.text = <<>> THEN [syntaxError |-> TRUE] ELSE b.text[1]

\* cacheRouteData up to its first await: caches.open is under way.
cacheRouteData(writes, routeData) ==
    Append(writes, [routeData |-> routeData, stage |-> "open"])

\* cache.put(url, response): the entry of the url is replaced.
cachePut(entries, url, body) == {e \in entries : e.url # url} \cup {[url |-> url, body |-> body]}

RemoveAt(seq, i) == SubSeq(seq, 1, i - 1) \o SubSeq(seq, i + 1, Len(seq))

\* The service worker handles the next message of the window.
SwMessage ==
    /\ swInbox # <<>>
    /\ LET msg == Head(swInbox)
       IN  /\ notifications' = OnMessage(notifications, msg)
           /\ IF msg.type = "CACHE_ROUTE"
              THEN /\ Len(cacheWrites) < MaxWrites
                   /\ cacheWrites' = cacheRouteData(cacheWrites, msg.payload)
              ELSE UNCHANGED cacheWrites
    /\ swInbox' = Tail(swInbox)
    /\ UNCHANGED <<fgVars, cache, swLog, sentRoute, swClients>>

\* caches.open resolves for the i-th run under way: the Response is built
\* and cache.put is called.
CacheOpened(i) ==
    /\ i \in 1..Len(cacheWrites)
    /\ cacheWrites[i].stage = "open"
    /\ cacheWrites' = [cacheWrites EXCEPT ![i] =
            [body |-> JSONStringify(cacheWrites[i].routeData), stage |-> "put"]]
    /\ UNCHANGED <<fgVars, swInbox, notifications, cache, swLog, sentRoute, swClients>>

\* cache.put resolves for the i-th run under way.
CachePutDone(i) ==
    /\ i \in 1..Len(cacheWrites)
    /\ cacheWrites[i].stage = "put"
    /\ cache' = cachePut(cache, ROUTE_URL, cacheWrites[i].body)
    /\ swLog' = swLog \cup {"[SW] Route data cached for offline use."}
    /\ cacheWrites' = RemoveAt(cacheWrites, i)
    /\ UNCHANGED <<fgVars, swInbox, notifications, sentRoute, swClients>>

\* caches.open or cache.put rejects for the i-th run under way: the catch
\* logs the error.
CacheFailed(i) ==
    /\ i \in 1..Len(cacheWrites)
    /\ swLog' = swLog \cup {"[SW] Failed to cache route:"}
    /\ cacheWrites' = RemoveAt(cacheWrites, i)
    /\ UNCHANGED <<fgVars, swInbox, notifications, cache, sentRoute, swClients>>

\* The listener posting SNOOZE_ALARM for the dismiss action too.
ClickMessages_DismissSnoozes(action) ==
    IF action = "dismiss" \/ action = "snooze"
        THEN << [type |-> "SNOOZE_ALARM", duration |-> SNOOZE_MS] >>
    ELSE <<>>

\* The listener posting a snooze of one minute.
ClickMessages_ShortSnooze(action) ==
    IF action = "dismiss" THEN << [type |-> "DISMISS_ALARM"] >>
    ELSE IF action = "snooze"
        THEN << [type |-> "SNOOZE_ALARM", duration |-> 60000] >>
    ELSE <<>>

\* The messages the notificationclick listener posts to the window.
ClickMessages(action) ==
    IF action = "dismiss" THEN << [type |-> "DISMISS_ALARM"] >>
    ELSE IF action = "snooze"
        THEN << [type |-> "SNOOZE_ALARM", duration |-> SNOOZE_MS] >>
    ELSE <<>>

\* Calls of clients.matchAll under way at once.
MaxClicks == 2

\* The notificationclick listener, on notification n and one of its action
\* buttons or its body (action ""): the notification is closed and
\* clients.matchAll is called; the listener returns before matchAll answers.
NotificationClick(n, action) ==
    /\ n \in notifications
    /\ action \in n.actions \cup {""}
    /\ Len(clickTasks) < MaxClicks
    /\ notifications' = notifications \ {n}
    /\ clickTasks' = Append(clickTasks, [action |-> action])
    /\ UNCHANGED <<fgVars, swInbox, swStore, windows>>

\* clients.matchAll answers the i-th call under way with the window clients:
\* the messages of the action are posted to each of them; after a click on the
\* body the first client is focused, or the app is opened when there is none.
MatchAllResolved(i) ==
    /\ i \in 1..Len(clickTasks)
    /\ LET msgs == ClickMessages(clickTasks[i].action)
       IN  /\ \A c \in windows : Len(clientInbox[c]) + Len(msgs) <= MaxInbox
           /\ clientInbox' = [c \in Clients |->
                    IF c \in windows THEN clientInbox[c] \o msgs ELSE clientInbox[c]]
    /\ windows' = IF clickTasks[i].action = "" /\ windows = {} THEN {"app"} ELSE windows
    /\ clickTasks' = RemoveAt(clickTasks, i)
    /\ UNCHANGED <<destStation, prevStation, alarmState, distToDest, distToPrev,
                   snoozeTimer, swInbox, notifications, swStore>>

\* The platform closes a notification that does not require interaction
\* when its display time is over.
NotificationExpire(n) ==
    /\ n \in notifications
    /\ ~n.requireInteraction
    /\ notifications' = notifications \ {n}
    /\ UNCHANGED <<fgVars, swInbox, swStore, swClients>>

AlarmInit ==
    /\ FnIdle
    /\ HooksIdle
    /\ \E r \in AlarmRoutes : prevStation = r[1] /\ destStation = r[2]
    /\ alarmState = "safe"
    /\ distToDest = Infinity
    /\ distToPrev = Infinity
    /\ snoozeTimer = NoTimer
    /\ SwIdle
    /\ cache = {[url |-> u, body |-> [asset |-> u]] : u \in STATIC_ASSETS}
    /\ windows = {"app"}
    /\ BackendIdle

AlarmNext ==
    \/ (\E pos \in SamplePositions : FgSample(pos)) /\ UNCHANGED <<fnVars, hookVars, apiVars>>
    \/ FgMessage /\ UNCHANGED <<fnVars, hookVars, apiVars>>
    \/ Advance /\ UNCHANGED <<fnVars, hookVars, apiVars>>
    \/ SnoozeExpire /\ UNCHANGED <<fnVars, hookVars, apiVars>>
    \/ SwMessage /\ UNCHANGED <<fnVars, hookVars, apiVars>>
    \/ (\E n \in notifications, a \in {"dismiss", "snooze", ""} :
            NotificationClick(n, a)) /\ UNCHANGED <<fnVars, hookVars, apiVars>>
    \/ (\E i \in 1..Len(clickTasks) : MatchAllResolved(i))
            /\ UNCHANGED <<fnVars, hookVars, apiVars>>

Spec == AlarmInit /\ [][AlarmNext]_vars


(***************************************************************************)
(* The service worker alone: the window posts any sequence of messages,    *)
(* the same message any number of times.  Specification SpecSw has the     *)
(* messages that render alerts, specification SpecCache the CACHE_ROUTE    *)
(* messages.                                                               *)
(***************************************************************************)

\* A message posted without a payload.
Undefined == [undefined |-> TRUE]

\* Two routes, as the window posts them in CACHE_ROUTE.
RouteA == [trainNo |-> "12043", stations |-> <<"MAS", "CGL">>]
RouteB == [trainNo |-> "12622", stations |-> <<"MAS", "TBM", "CGL">>]

\* TRIGGER_ALARM with the distance under the name the listener reads and
\* under the name of the interface table, and PRE_ALERT.
AlertMessages ==
    { [type |-> "TRIGGER_ALARM",
       payload |-> [stationName |-> "Chengalpattu", distance |-> 1500]],
      [type |-> "TRIGGER_ALARM",
       payload |-> [stationName |-> "Chengalpattu", distance |-> 800]],
      [type |-> "TRIGGER_ALARM",
       payload |-> [stationName |-> "Chengalpattu", distanceKm |-> 1500]],
      [type |-> "PRE_ALERT",
       payload |-> [prevStationName |-> "Tambaram", destStationName |-> "Chengalpattu"]],
      [type |-> "PRE_ALERT",
       payload |-> [prevStationName |-> "Guduvancheri", destStationName |-> "Chengalpattu"]] }

CacheMessages ==
    { [type |-> "CACHE_ROUTE", payload |-> RouteA],
      [type |-> "CACHE_ROUTE", payload |-> RouteB],
      [type |-> "CACHE_ROUTE", payload |-> Undefined] }

WindowMessages == AlertMessages \cup CacheMessages

\* The window posts a message to the service worker.
WindowPost(msg) ==
    /\ Len(swInbox) < MaxInbox
    /\ swInbox' = Append(swInbox, msg)
    /\ sentRoute' = IF msg.type = "CACHE_ROUTE" THEN msg.payload ELSE sentRoute
    /\ UNCHANGED <<fgVars, notifications, cache, cacheWrites, swLog, swClients>>

\* The service worker installed and activated, with any of the windows open.
SwInit ==
    /\ FnIdle
    /\ HooksIdle
    /\ BackendIdle
    /\ destStation = NoCoord
    /\ prevStation = NoCoord
    /\ alarmState = "safe"
    /\ distToDest = Infinity
    /\ distToPrev = Infinity
    /\ snoozeTimer = NoTimer
    /\ SwIdle
    /\ cache \in InstalledCaches
    /\ windows \in SUBSET Clients

SwNext ==
    \/ (\E msg \in AlertMessages : WindowPost(msg)) /\ UNCHANGED <<fnVars, hookVars, apiVars>>
    \/ SwMessage /\ UNCHANGED <<fnVars, hookVars, apiVars>>
    \/ (\E n \in notifications, a \in {"dismiss", "snooze", ""} :
            NotificationClick(n, a)) /\ UNCHANGED <<fnVars, hookVars, apiVars>>
    \/ (\E i \in 1..Len(clickTasks) : MatchAllResolved(i))
            /\ UNCHANGED <<fnVars, hookVars, apiVars>>
    \/ (\E n \in notifications : NotificationExpire(n)) /\ UNCHANGED <<fnVars, hookVars, apiVars>>
    \/ FgMessage /\ UNCHANGED <<fnVars, hookVars, apiVars>>
    \/ OtherMessage /\ UNCHANGED <<fnVars, hookVars, apiVars>>

CacheNext ==
    \/ (\E msg \in CacheMessages : WindowPost(msg)) /\ UNCHANGED <<fnVars, hookVars, apiVars>>
    \/ SwMessage /\ UNCHANGED <<fnVars, hookVars, apiVars>>
    \/ (\E i \in 1..Len(cacheWrites) : CacheOpened(i)) /\ UNCHANGED <<fnVars, hookVars, apiVars>>
    \/ (\E i \in 1..Len(cacheWrites) : CachePutDone(i)) /\ UNCHANGED <<fnVars, hookVars, apiVars>>
    \/ (\E i \in 1..Len(cacheWrites) : CacheFailed(i)) /\ UNCHANGED <<fnVars, hookVars, apiVars>>

SpecCache == SwInit /\ [][CacheNext]_vars

SpecSw == SwInit /\ [][SwNext]_vars


(***************************************************************************)
(* Properties of the service worker (specification SpecSw).                *)
(***************************************************************************)

\* Every CACHE_ROUTE message sent was handled and every write has finished.
RoutesProcessed ==
    /\ \A i \in 1..Len(swInbox) : swInbox[i].type # "CACHE_ROUTE"
    /\ cacheWrites = <<>>

NoWriteFailed == "[SW] Failed to cache route:" \notin swLog

\* The entries of the cache that hold a route: all but the static assets.
RouteSlots == {e \in cache : e.url \notin STATIC_ASSETS}

\* C11: once the CACHE_ROUTE messages are processed, and no write failed, the
\* cache holds the one route slot /cached-route and its content is the route
\* of the CACHE_ROUTE message sent last.
C11_LastRouteCached ==
    (RoutesProcessed /\ NoWriteFailed /\ "trainNo" \in DOMAIN sentRoute) =>
        /\ RouteSlots = {[url |-> ROUTE_URL, body |-> JSONStringify(sentRoute)]}
        /\ \A e \in RouteSlots : JSONParse(e.body) = sentRoute

\* The service worker handles message msg in this step.
Handles(msg) == SwMessage /\ swInbox # <<>> /\ Head(swInbox) = msg

Tags(shown) == {n.tag : n \in shown}

\* C12: at most one notification is on display per tag; handling TRIGGER_ALARM
\* or PRE_ALERT leaves exactly one notification of its tag, the other tag
\* untouched; and handling a message again whose notification is on display
\* leaves the notifications as they are.
C12_OneAlertPerTag ==
    /\ [](\A n, m \in notifications : n.tag = m.tag => n = m)
    /\ [](Tags(notifications) \subseteq {"destination-alarm", "pre-alert"})
    /\ [][ \A msg \in WindowMessages :
             Handles(msg) =>
                /\ Cardinality(notifications') <= Cardinality(notifications) + 1
                /\ \A n \in notifications' \ notifications :
                        \A m \in notifications : m.tag = n.tag => m \notin notifications'
                /\ OnMessage(notifications', msg) = notifications'
         ]_vars

\* C12 witness: both alerts are on display, the alarm rendered from the
\* second of two TRIGGER_ALARM messages with different distances, and the same
\* message is in flight once more.
C12_Witness ==
    /\ Tags(notifications) = {"destination-alarm", "pre-alert"}
    /\ Cardinality(notifications) = 2
    /\ \E n \in notifications : n.tag = "destination-alarm" /\ n.data.distance = 800
    /\ swInbox # <<>>
    /\ Head(swInbox) = [type |-> "TRIGGER_ALARM",
                        payload |-> [stationName |-> "Chengalpattu", distance |-> 800]]

Shows(shown, tag) == \E n \in shown : n.tag = tag

\* C13: handling a TRIGGER_ALARM message with the payload {stationName,
\* distanceKm} leaves a destination-alarm notification on display; that
\* notification requires interaction and goes away only by a click on it;
\* a pre-alert notification does not require interaction and expires.
C13_AlarmRenderedAndPersistent ==
    /\ [][ \A msg \in AlertMessages :
             (Handles(msg) /\ msg.type = "TRIGGER_ALARM"
                /\ DOMAIN msg.payload = {"stationName", "distanceKm"}) =>
                    Shows(notifications', "destination-alarm")
         ]_vars
    /\ [][ (Shows(notifications, "destination-alarm")
              /\ ~Shows(notifications', "destination-alarm")) =>
                \E n \in notifications, a \in {"dismiss", "snooze", ""} :
                    n.tag = "destination-alarm" /\ NotificationClick(n, a)
         ]_vars
    /\ [](\A n \in notifications :
            /\ n.tag = "destination-alarm" => n.requireInteraction
            /\ n.tag = "pre-alert" => ~n.requireInteraction)

\* clients.matchAll answers a call made by a click on action a.
Resolves(a) ==
    \E i \in 1..Len(clickTasks) : clickTasks[i].action = a /\ MatchAllResolved(i)

\* C14: every click closes the notification; the click on dismiss is followed
\* by DISMISS_ALARM posted to each window, the click on snooze by SNOOZE_ALARM
\* with the payload {durationMs: 120000}, and the click on the body by no
\* message.
C14_ClickMessages ==
    [][ /\ \A n \in notifications, a \in {"dismiss", "snooze", ""} :
              NotificationClick(n, a) =>
                  (n \notin notifications' /\ clickTasks' = Append(clickTasks, [action |-> a]))
        /\ Resolves("dismiss") =>
              \A c \in windows :
                  clientInbox'[c] = Append(clientInbox[c], [type |-> "DISMISS_ALARM"])
        /\ Resolves("snooze") =>
              \A c \in windows :
                 /\ Len(clientInbox'[c]) = Len(clientInbox[c]) + 1
                 /\ LET msg == clientInbox'[c][Len(clientInbox'[c])]
                    IN  /\ msg.type = "SNOOZE_ALARM"
                        /\ "payload" \in DOMAIN msg
                        /\ msg.payload = [durationMs |-> 120000]
        /\ Resolves("") => clientInbox' = clientInbox
      ]_vars

(***************************************************************************)
(* Properties of the alarm state machine and the service worker            *)
(* (specification Spec).                                                   *)
(***************************************************************************)

\* This step posts one message of type t to the service worker.
SentNow(t) ==
    /\ Len(swInbox') = Len(swInbox) + 1
    /\ swInbox'[Len(swInbox')].type = t

SampleStep == \E pos \in SamplePositions : FgSample(pos)

HasTag(shown, tag) == \E n \in shown : n.tag = tag

\* C4: one dispatch per entry into alarm (TRIGGER_ALARM) and into pre-alert
\* (PRE_ALERT): a step posts the message exactly when it moves the state into
\* that state from another one, so samples that keep the state post nothing and
\* a later re-entry posts again; a sample within 2 km posts TRIGGER_ALARM exactly
\* when the state was neither alarm nor snoozed; and the service worker handles
\* each posted message once, rendering the alert of its kind.
C4_OneDispatchPerEntry ==
    [][ /\ (alarmState' = "alarm" /\ alarmState # "alarm") <=> SentNow("TRIGGER_ALARM")
        /\ (alarmState' = "pre-alert" /\ alarmState # "pre-alert") <=> SentNow("PRE_ALERT")
        /\ Len(swInbox') <= Len(swInbox) + 1
        /\ SampleStep =>
              (SentNow("TRIGGER_ALARM") <=>
                  (distToDest' <= 2000 /\ alarmState \notin {"alarm", "snoozed"}))
        /\ (SwMessage /\ Head(swInbox).type = "TRIGGER_ALARM") =>
              /\ HasTag(notifications', "destination-alarm")
              /\ HasTag(notifications', "pre-alert") <=> HasTag(notifications, "pre-alert")
        /\ (SwMessage /\ Head(swInbox).type = "PRE_ALERT") =>
              /\ HasTag(notifications', "pre-alert")
              /\ HasTag(notifications', "destination-alarm")
                    <=> HasTag(notifications, "destination-alarm")
      ]_vars

\* C4 witness: the state entered alarm at 2 km, a second sample at 1.999 km
\* kept it there, and one TRIGGER_ALARM is in flight.
C4_Witness ==
    /\ alarmState = "alarm"
    /\ distToDest = 1999
    /\ Len(swInbox) = 1
    /\ swInbox[1].type = "TRIGGER_ALARM"
    /\ swInbox[1].payload.distance = 2000
    /\ notifications = {}

\* C5: a dismiss, in whatever state, forces the state to safe and cancels a
\* pending snooze timer; a click on the dismiss action posts DISMISS_ALARM to
\* the window; and the snooze timer fires only while the state is snoozed, so
\* never after a dismiss.
C5_DismissForcesSafe ==
    [][ /\ (FgMessage /\ Head(clientInbox["app"]).type = "DISMISS_ALARM") =>
              (alarmState' = "safe" /\ snoozeTimer'.status # "pending")
        /\ (Resolves("dismiss") /\ "app" \in windows) =>
              clientInbox'["app"] = Append(clientInbox["app"], [type |-> "DISMISS_ALARM"])
        /\ (snoozeTimer.status = "pending") <=> (alarmState = "snoozed")
        /\ SnoozeExpire => alarmState = "snoozed"
      ]_vars

\* C5 witness: a snooze timer cancelled one minute after it was started.
C5_Witness ==
    /\ alarmState = "safe"
    /\ snoozeTimer = [status |-> "cancelled", duration |-> 120000, elapsed |-> 60000]

\* C6: a snooze handled in state alarm moves the state to snoozed and starts
\* a timer of 120000 ms; until 120000 ms have elapsed no step posts
\* TRIGGER_ALARM from the snoozed state, and a position sample leaves the state
\* snoozed and posts nothing.
C6_SnoozeSuppresses ==
    [][ /\ (FgMessage /\ Head(clientInbox["app"]).type = "SNOOZE_ALARM" /\ alarmState = "alarm") =>
              /\ alarmState' = "snoozed"
              /\ snoozeTimer' = [status |-> "pending", duration |-> 120000, elapsed |-> 0]
        /\ (alarmState = "snoozed" /\ SentNow("TRIGGER_ALARM")) =>
              snoozeTimer.elapsed >= 120000
        /\ (alarmState = "snoozed" /\ alarmState' # "snoozed" /\ alarmState' # "safe") =>
              snoozeTimer.elapsed >= 120000
        /\ (alarmState = "snoozed" /\ SampleStep) =>
              (alarmState' = "snoozed" /\ swInbox' = swInbox)
      ]_vars

\* C6 witness: one minute into the snooze, after a sample 15 km from the
\* destination, with nothing dispatched.
C6_Witness ==
    /\ alarmState = "snoozed"
    /\ snoozeTimer = [status |-> "pending", duration |-> 120000, elapsed |-> 60000]
    /\ distToDest = 15000
    /\ swInbox = <<>>

\* C7: when the snooze timer expires the state becomes the one the four-way
\* rule gives for the latest known distances: alarm exactly when distToDest <= 2
\* km still holds.
C7_ExpiryReappliesRule ==
    [][ SnoozeExpire =>
          /\ (alarmState' = "alarm") <=> (distToDest <= 2000)
          /\ (alarmState' = "pre-alert") <=> (distToDest > 2000 /\ distToPrev <= 500)
          /\ (alarmState' = "approaching") <=>
                (distToDest > 2000 /\ distToDest <= 15000 /\ distToPrev > 500)
          /\ (alarmState' = "safe") <=> (distToDest > 15000 /\ distToPrev > 500)
          /\ distToDest' = distToDest /\ distToPrev' = distToPrev
      ]_vars

\* C7 witness: the timer has fired with the traveller 15 km away, and the
\* state is approaching, not alarm.
C7_Witness ==
    /\ snoozeTimer = [status |-> "fired", duration |-> 120000, elapsed |-> 120000]
    /\ distToDest = 15000
    /\ alarmState = "approaching"
    /\ swInbox = <<>>


(***************************************************************************)
(* useSimulatedGeolocation (useGeolocation.js)                             *)
(***************************************************************************)

STEPS_PER_SEGMENT == 100

\* The 5000 of INTERVAL_MS = 5000 / speedMultiplier.
BASE_INTERVAL_MS == 5000

\* Runs of the effect that start a timer.
MaxTimers == 2

Speeds == {100, 200}

\* The binary64 nearest to 13.0827.
D_13_0827 == Num(0, -49, <<551, 7707, 9594, 1674>>)

\* The binary64 nearest to 80.2707.
D_80_2707 == Num(0, -46, <<446, 6239, 5426, 1284>>)

\* The binary64 nearest to 12.6921.
D_12_6921 == Num(0, -49, <<8074, 14732, 9646, 1624>>)

\* The binary64 nearest to 79.9765.
D_79_9765 == Num(0, -46, <<8913, 10092, 10223, 1279>>)

\* 1.5
D_1_5 == Num(0, -52, <<0, 0, 0, 1536>>)

\* The binary64 nearest to 0.3.
D_0_3 == Num(0, -54, <<13107, 3276, 13107, 1228>>)

\* 103.5
D_103_5 == Num(0, -46, <<0, 0, 0, 1656>>)

\* 103.25
D_103_25 == Num(0, -46, <<0, 0, 0, 1652>>)

\* 32.5
D_32_5 == Num(0, -47, <<0, 0, 0, 1040>>)

\* 12.5
D_12_5 == Num(0, -49, <<0, 0, 0, 1600>>)

Station(lat, lon) == [latitude |-> lat, longitude |-> lon]

\* The first two stations of the demo route (generateMockRoute).
ChennaiCentral == Station(D_13_0827, D_80_2707)
Chengalpattu == Station(D_12_6921, D_79_9765)

\* Two stations near the equator, 1.2 degrees of latitude apart.
NorthStation == Station(D_1_5, D_103_5)
SouthStation == Station(D_0_3, D_103_25)

\* A station on the equator.
EquatorStation == Station(DZero(0), D_32_5)

\* Stations of a route whose provider had no coordinates, or no longitude
\* (null, or no such key).
NoCoordStation == Station(JSNull, JSNull)
NoLonStation == Station(D_12_5, JSNull)
NoLonKeyStation == Station(D_12_5, JSUndefined)
NoKeysStation == Station(JSUndefined, JSUndefined)

SimRoutes ==
    { <<ChennaiCentral, Chengalpattu>>,
      <<NorthStation, SouthStation>>,
      <<NorthStation, SouthStation, EquatorStation>>,
      <<EquatorStation, NorthStation>>,
      <<ChennaiCentral, NoCoordStation, Chengalpattu>>,
      <<NoCoordStation, ChennaiCentral, Chengalpattu>>,
      <<ChennaiCentral, NoLonStation>>,
      <<ChennaiCentral, NoLonKeyStation>>,
      <<NoKeysStation, Chengalpattu>>,
      <<ChennaiCentral>> }

\* !x for a coordinate: null, undefined, NaN, +0 and -0 are falsy.
Falsy(x) == x.null \/ x.undefined \/ x.nan \/ x.mant = <<>>

\* from + (to - from) * t
Lerp(from, to, t) ==
    DAdd(ToNumber(from), DMul(DSub(ToNumber(to), ToNumber(from)), t))

\* step / STEPS_PER_SEGMENT for every step of a segment.
StepFraction == [s \in 0..STEPS_PER_SEGMENT |-> DDivNat(s, STEPS_PER_SEGMENT)]

\* The (from, to) coordinate pairs of the segments of the routes.
SegmentPairs ==
    UNION { UNION { { <<r[i].latitude, r[i + 1].latitude>>,
                      <<r[i].longitude, r[i + 1].longitude>> } :
                    i \in 1..(Len(r) - 1) } :
            r \in SimRoutes }

\* Lerp over every segment and step, computed once.
Interpolated ==
    [p \in SegmentPairs |->
        [s \in 0..STEPS_PER_SEGMENT |-> Lerp(p[1], p[2], StepFraction[s])]]

\* clearInterval(id)
clearInterval(timers, id) == {x \in timers : x.id # id}

\* The cleanup leaving the timer registered.
SimCleanup_NoClear == UNCHANGED simVars

\* The cleanup the effect returns when it has started a timer.
SimCleanup ==
    /\ intervals' = IF intervalRef # NULL
                    THEN clearInterval(intervals, intervalRef) ELSE intervals
    /\ UNCHANGED <<stations, isActive, speedMultiplier, simPosition, currentSegment,
                   progress, intervalRef, simHasCleanup, nextTimerId>>

\* The effect, run with the props of the commit.
SimEffect ==
    IF ~isActive \/ Len(stations) < 2
    THEN /\ intervals' = IF intervalRef # NULL
                         THEN clearInterval(intervals, intervalRef) ELSE intervals
         /\ simPosition' = NoSample
         /\ currentSegment' = 0
         /\ progress' = DZero(0)
         /\ simHasCleanup' = FALSE
         /\ UNCHANGED <<stations, isActive, speedMultiplier, intervalRef, nextTimerId>>
    ELSE /\ currentSegment' = 0
         /\ progress' = DZero(0)
         /\ intervals' = intervals \cup
                {[id |-> nextTimerId, seg |-> 0, step |-> 0,
                  ms |-> BASE_INTERVAL_MS \div speedMultiplier]}
         /\ intervalRef' = nextTimerId
         /\ nextTimerId' = nextTimerId + 1
         /\ simHasCleanup' = TRUE
         /\ UNCHANGED <<stations, isActive, speedMultiplier, simPosition>>

\* The effects of a commit in which the deps of the hook changed.
SimEffects == (IF simHasCleanup THEN <<"simCleanup">> ELSE <<>>) \o <<"simEffect">>

(***************************************************************************)
(* useGeolocation                                                          *)
(***************************************************************************)

HIGH_ACCURACY_OPTIONS ==
    [enableHighAccuracy |-> TRUE, timeout |-> 10000, maximumAge |-> 5000]

LOW_ACCURACY_OPTIONS ==
    [enableHighAccuracy |-> FALSE, timeout |-> 30000, maximumAge |-> 60000]

\* High accuracy is used within 50 km of the destination.
HIGH_ACCURACY_KM == 50

\* Calls of watchPosition.
MaxWatches == 2

\* The distanceToDestKm prop: both sides of the 50 km limit, and the default.
DistancesKm == {49, 50, Infinity}

\* Positions the browser reports: [lat, lon, accuracy].
GeoSamples == {[lat |-> 500, lon |-> 0, accuracy |-> 10],
               [lat |-> 17000, lon |-> 1500, accuracy |-> 65]}

\* err.code of a PositionError (1, 2, 3) and a code outside the table.
ErrorCodes == {1, 2, 3, 4}

\* The table of messages without its entry for code 3.
ErrorMessage_NoTimeout(code) ==
    CASE code = 1 -> "Location permission denied. Please allow location access in your browser settings."
      [] code = 2 -> "Location unavailable. Check your GPS or network connection."
      [] OTHER -> "Unknown location error."

\* messages[err.code] || 'Unknown location error.'
ErrorMessage(code) ==
    CASE code = 1 -> "Location permission denied. Please allow location access in your browser settings."
      [] code = 2 -> "Location unavailable. Check your GPS or network connection."
      [] code = 3 -> "Location request timed out. Retrying..."
      [] OTHER -> "Unknown location error."

\* What stopWatching and startWatching read and write.
GeoState ==
    [watches |-> watches, ref |-> watchIdRef, next |-> nextWatchId, error |-> geoError]

SetGeoState(g) ==
    /\ watches' = g.watches
    /\ watchIdRef' = g.ref
    /\ nextWatchId' = g.next
    /\ geoError' = g.error

\* stopWatching forgetting the watch without clearWatch.
stopWatching_NoClear(g) == [g EXCEPT !.ref = NULL]

stopWatching(g) ==
    IF g.ref # NULL
    THEN [g EXCEPT !.watches = {w \in @ : w.id # g.ref}, !.ref = NULL]
    ELSE g

\* The options of the watch for a distance to the destination.
OptionsFor(dist) ==
    IF dist < HIGH_ACCURACY_KM THEN HIGH_ACCURACY_OPTIONS ELSE LOW_ACCURACY_OPTIONS

\* startWatching not keeping the id of the watch.
startWatching_NoRef(g, dist) ==
    IF ~geolocation
    THEN [g EXCEPT !.error = "Geolocation is not supported by your browser."]
    ELSE [g EXCEPT !.watches = @ \cup {[id |-> g.next, options |-> OptionsFor(dist)]},
                   !.next = @ + 1]

\* startWatching asking for low accuracy at every distance.
startWatching_AlwaysLow(g, dist) ==
    IF ~geolocation
    THEN [g EXCEPT !.error = "Geolocation is not supported by your browser."]
    ELSE [g EXCEPT !.watches = @ \cup {[id |-> g.next, options |-> LOW_ACCURACY_OPTIONS]},
                   !.ref = g.next,
                   !.next = @ + 1]

\* startWatching of the render in which the prop distanceToDestKm is dist.
startWatching(g, dist) ==
    IF ~geolocation
    THEN [g EXCEPT !.error = "Geolocation is not supported by your browser."]
    ELSE LET options == IF dist < HIGH_ACCURACY_KM
                        THEN HIGH_ACCURACY_OPTIONS ELSE LOW_ACCURACY_OPTIONS
         IN  [g EXCEPT !.watches = @ \cup {[id |-> g.next, options |-> options]},
                       !.ref = g.next,
                       !.next = @ + 1]

\* The cleanup of the effect: stopWatching.
GeoCleanup ==
    /\ SetGeoState(stopWatching(GeoState))
    /\ UNCHANGED <<isTracking, distanceToDestKm, geoPosition, accuracy, geolocation, mounted>>

\* The effect, run with the props of the commit.
GeoEffect ==
    /\ SetGeoState(IF isTracking
                   THEN startWatching(stopWatching(GeoState), distanceToDestKm)
                   ELSE stopWatching(GeoState))
    /\ UNCHANGED <<isTracking, distanceToDestKm, geoPosition, accuracy, geolocation, mounted>>

\* The success callback of watch w.
GeoOnPosition(w, pos) ==
    /\ pendingEffects = <<>>
    /\ w \in watches
    /\ geoPosition' = [lat |-> pos.lat, lon |-> pos.lon]
    /\ accuracy' = pos.accuracy
    /\ geoError' = NoError
    /\ UNCHANGED <<isTracking, distanceToDestKm, watchIdRef, watches, nextWatchId,
                   geolocation, mounted, pendingEffects>>

\* The error callback of watch w.
GeoOnError(w, code) ==
    /\ pendingEffects = <<>>
    /\ w \in watches
    /\ geoError' = ErrorMessage(code)
    /\ UNCHANGED <<isTracking, distanceToDestKm, geoPosition, accuracy, watchIdRef,
                   watches, nextWatchId, geolocation, mounted, pendingEffects>>

\* The next cleanup or effect of the commit runs.
RunEffect ==
    /\ pendingEffects # <<>>
    /\ pendingEffects' = Tail(pendingEffects)
    /\ CASE Head(pendingEffects) = "simCleanup" -> SimCleanup /\ UNCHANGED geoVars
         [] Head(pendingEffects) = "simEffect" -> SimEffect /\ UNCHANGED geoVars
         [] Head(pendingEffects) = "geoCleanup" -> GeoCleanup /\ UNCHANGED simVars
         [] Head(pendingEffects) = "geoEffect" -> GeoEffect /\ UNCHANGED simVars

(***************************************************************************)
(* useSimulatedGeolocation: props and timer                                *)
(***************************************************************************)

\* The isActive prop changes.
SimSetActive ==
    /\ pendingEffects = <<>>
    /\ nextTimerId <= MaxTimers
    /\ isActive' = ~isActive
    /\ pendingEffects' = SimEffects
    /\ UNCHANGED <<stations, speedMultiplier, simPosition, currentSegment, progress,
                   intervalRef, simHasCleanup, intervals, nextTimerId>>

\* The speedMultiplier prop changes.
SimSetSpeed(v) ==
    /\ pendingEffects = <<>>
    /\ nextTimerId <= MaxTimers
    /\ v # speedMultiplier
    /\ speedMultiplier' = v
    /\ pendingEffects' = SimEffects
    /\ UNCHANGED <<stations, isActive, simPosition, currentSegment, progress,
                   intervalRef, simHasCleanup, intervals, nextTimerId>>

\* The interval callback returning, once the route is over, without clearing
\* the timer.
SimTick_NoClear(t) ==
    /\ pendingEffects = <<>>
    /\ t \in intervals
    /\ IF t.seg >= Len(stations) - 1
       THEN UNCHANGED <<intervals, simPosition, currentSegment, progress>>
       ELSE LET from == stations[t.seg + 1]
                to == stations[t.seg + 2]
            IN  IF Falsy(from.latitude) \/ Falsy(to.latitude)
                THEN /\ intervals' = (intervals \ {t}) \cup
                            {[t EXCEPT !.seg = t.seg + 1, !.step = 0]}
                     /\ UNCHANGED <<simPosition, currentSegment, progress>>
                ELSE LET tt == StepFraction[t.step]
                     IN  /\ simPosition' =
                                [null |-> FALSE,
                                 lat |-> Interpolated[<<from.latitude, to.latitude>>][t.step],
                                 lon |-> Interpolated[<<from.longitude, to.longitude>>][t.step]]
                         /\ currentSegment' = t.seg
                         /\ progress' = tt
                         /\ intervals' = (intervals \ {t}) \cup
                                {IF t.step + 1 > STEPS_PER_SEGMENT
                                 THEN [t EXCEPT !.seg = t.seg + 1, !.step = 0]
                                 ELSE [t EXCEPT !.step = t.step + 1]}
    /\ UNCHANGED <<stations, isActive, speedMultiplier, intervalRef, simHasCleanup,
                   nextTimerId, pendingEffects>>

\* The interval callback of timer t.
SimTick(t) ==
    /\ pendingEffects = <<>>
    /\ t \in intervals
    /\ IF t.seg >= Len(stations) - 1
       THEN /\ intervals' = clearInterval(intervals, intervalRef)
            /\ UNCHANGED <<simPosition, currentSegment, progress>>
       ELSE LET from == stations[t.seg + 1]
                to == stations[t.seg + 2]
            IN  IF Falsy(from.latitude) \/ Falsy(to.latitude)
                THEN /\ intervals' = (intervals \ {t}) \cup
                            {[t EXCEPT !.seg = t.seg + 1, !.step = 0]}
                     /\ UNCHANGED <<simPosition, currentSegment, progress>>
                ELSE LET tt == StepFraction[t.step]
                     IN  /\ simPosition' =
                                [null |-> FALSE,
                                 lat |-> Interpolated[<<from.latitude, to.latitude>>][t.step],
                                 lon |-> Interpolated[<<from.longitude, to.longitude>>][t.step]]
                         /\ currentSegment' = t.seg
                         /\ progress' = tt
                         /\ intervals' = (intervals \ {t}) \cup
                                {IF t.step + 1 > STEPS_PER_SEGMENT
                                 THEN [t EXCEPT !.seg = t.seg + 1, !.step = 0]
                                 ELSE [t EXCEPT !.step = t.step + 1]}
    /\ UNCHANGED <<stations, isActive, speedMultiplier, intervalRef, simHasCleanup,
                   nextTimerId, pendingEffects>>

\* The hook mounted with isActive false, for one of the routes.
SimInit ==
    /\ FnIdle
    /\ AlarmIdle
    /\ GeoIdle
    /\ geolocation = TRUE
    /\ stations \in SimRoutes
    /\ isActive = FALSE
    /\ speedMultiplier \in Speeds
    /\ simPosition = NoSample
    /\ currentSegment = 0
    /\ progress = DZero(0)
    /\ intervalRef = NULL
    /\ simHasCleanup = FALSE
    /\ intervals = {}
    /\ nextTimerId = 1
    /\ pendingEffects = <<>>

SimTickAny ==
    (\E t \in intervals : SimTick(t)) /\ UNCHANGED <<apiVars, fnVars, fgVars, swVars, geoVars>>

SimRunEffect == RunEffect /\ UNCHANGED <<apiVars, fnVars, fgVars, swVars>>

SimNext ==
    \/ SimSetActive /\ UNCHANGED <<apiVars, fnVars, fgVars, swVars, geoVars>>
    \/ (\E v \in Speeds : SimSetSpeed(v)) /\ UNCHANGED <<apiVars, fnVars, fgVars, swVars, geoVars>>
    \/ SimRunEffect
    \/ SimTickAny

SpecSim == SimInit /\ [][SimNext]_vars

\* The interval timers keep firing while they are registered.
SpecSimFair == SimInit /\ [][SimNext]_vars /\ WF_vars(SimTickAny) /\ WF_vars(SimRunEffect)


(***************************************************************************)
(* Properties of the simulated playback (specifications SpecSim and        *)
(* SpecSimFair).                                                           *)
(***************************************************************************)

\* x is a Number other than NaN.
IsCoordinate(x) == ~x.null /\ ~x.undefined /\ ~x.nan

HasCoords(st) == IsCoordinate(st.latitude) /\ IsCoordinate(st.longitude)

SampleAt(st) == [null |-> FALSE, lat |-> st.latitude, lon |-> st.longitude]

\* C8: in every segment whose two stations both have coordinates, the sample
\* emitted at step 0 is the from-station's coordinates and the sample emitted at
\* step 100 (t = 1) is exactly the to-station's coordinates.
C8_ExactArrival ==
    [][ \A t \in intervals :
          (SimTick(t) /\ t.seg < Len(stations) - 1) =>
              LET from == stations[t.seg + 1]
                  to == stations[t.seg + 2]
              IN  (HasCoords(from) /\ HasCoords(to)) =>
                    /\ (t.step = 0 /\ [t EXCEPT !.step = 1] \in intervals') =>
                          simPosition' = SampleAt(from)
                    /\ (t.step = 100) => simPosition' = SampleAt(to)
      ]_vars

\* C9: a registered interval timer is eventually cleared; the tick that finds
\* the last segment completed clears the timer and emits no sample; and while
\* no timer is registered no sample is emitted.
C9_PlaybackTerminates ==
    /\ (intervals # {}) ~> (intervals = {})
    /\ [][ /\ \A t \in intervals :
                (SimTick(t) /\ t.seg >= Len(stations) - 1) =>
                    (intervals' = {} /\ simPosition' = simPosition)
           /\ (intervals = {} /\ pendingEffects = <<>> /\ pendingEffects' = <<>>) =>
                simPosition' = simPosition
         ]_vars

\* C9 witness: the playback of a route with a station without coordinates has
\* run to its end: it is still active, both segments were skipped and the timer
\* is cleared.
C9_Witness ==
    /\ stations = <<ChennaiCentral, NoCoordStation, Chengalpattu>>
    /\ isActive
    /\ pendingEffects = <<>>
    /\ intervalRef = 1
    /\ intervals = {}
    /\ simPosition = NoSample

\* The playback of the two-station demo route has run to its end at the
\* second station.
C9_WitnessDemo ==
    /\ stations = <<ChennaiCentral, Chengalpattu>>
    /\ isActive
    /\ pendingEffects = <<>>
    /\ intervals = {}
    /\ simPosition = SampleAt(Chengalpattu)
    /\ progress = DFromNat(1)

\* C16: a tick on a segment with a station that lacks its latitude or its
\* longitude emits no sample and moves on to the next segment; a tick on a
\* segment whose two stations have their coordinates emits a sample with a
\* lat and a lon and advances the step.
C16_MissingCoordinateSkipped ==
    [][ \A t \in intervals :
          (SimTick(t) /\ t.seg < Len(stations) - 1) =>
              LET from == stations[t.seg + 1]
                  to == stations[t.seg + 2]
              IN  IF HasCoords(from) /\ HasCoords(to)
                  THEN /\ ~simPosition'.null
                       /\ IsCoordinate(simPosition'.lat) /\ IsCoordinate(simPosition'.lon)
                       /\ (IF t.step = STEPS_PER_SEGMENT
                           THEN [t EXCEPT !.seg = t.seg + 1, !.step = 0]
                           ELSE [t EXCEPT !.step = t.step + 1]) \in intervals'
                  ELSE /\ simPosition' = simPosition
                       /\ [t EXCEPT !.seg = t.seg + 1, !.step = 0] \in intervals'
      ]_vars

(***************************************************************************)
(* The two position sources of a trip (specification SpecSource).  The     *)
(* page mounts both hooks and gives at most one of them a true             *)
(* isTracking / isActive; a commit runs the cleanups of the effects whose  *)
(* deps changed, then the effects.                                         *)
(***************************************************************************)

Sources == {"live", "simulated"}

\* The cleanups, then the effects, of a commit in which the deps of the
\* effect of useGeolocation (geo) or of useSimulatedGeolocation (sim) changed.
CommitEffects(geo, sim, geoFirst) ==
    LET gc == IF geo THEN <<"geoCleanup">> ELSE <<>>
        sc == IF sim /\ simHasCleanup THEN <<"simCleanup">> ELSE <<>>
        ge == IF geo THEN <<"geoEffect">> ELSE <<>>
        se == IF sim THEN <<"simEffect">> ELSE <<>>
    IN  IF geoFirst THEN gc \o sc \o ge \o se ELSE sc \o gc \o se \o ge

SourceBudget == nextWatchId <= MaxWatches /\ nextTimerId <= MaxTimers

SourceUnchanged ==
    UNCHANGED <<stations, speedMultiplier, simPosition, currentSegment, progress,
                intervalRef, simHasCleanup, intervals, nextTimerId,
                geoPosition, geoError, accuracy, watchIdRef, watches, nextWatchId,
                geolocation, mounted>>

\* The trip starts with one of the sources.
StartTrip(src) ==
    /\ mounted
    /\ pendingEffects = <<>>
    /\ SourceBudget
    /\ ~isTracking /\ ~isActive
    /\ isTracking' = (src = "live")
    /\ isActive' = (src = "simulated")
    /\ pendingEffects' = CommitEffects(src = "live", src = "simulated", TRUE)
    /\ UNCHANGED distanceToDestKm
    /\ SourceUnchanged

\* The trip ends.
StopTrip ==
    /\ mounted
    /\ pendingEffects = <<>>
    /\ isTracking \/ isActive
    /\ isTracking' = FALSE
    /\ isActive' = FALSE
    /\ pendingEffects' = CommitEffects(isTracking, isActive, TRUE)
    /\ UNCHANGED distanceToDestKm
    /\ SourceUnchanged

\* The running trip changes to the other source, in one commit.
SwitchSource(geoFirst) ==
    /\ mounted
    /\ pendingEffects = <<>>
    /\ SourceBudget
    /\ isTracking \/ isActive
    /\ isTracking' = isActive
    /\ isActive' = isTracking
    /\ pendingEffects' = CommitEffects(TRUE, TRUE, geoFirst)
    /\ UNCHANGED distanceToDestKm
    /\ SourceUnchanged

\* A render with another distance to the destination: startWatching is a new
\* function, which is a dep of the effect of useGeolocation.
DistanceChange(d) ==
    /\ mounted
    /\ pendingEffects = <<>>
    /\ SourceBudget
    /\ d # distanceToDestKm
    /\ distanceToDestKm' = d
    /\ pendingEffects' = CommitEffects(TRUE, FALSE, TRUE)
    /\ UNCHANGED <<isTracking, isActive>>
    /\ SourceUnchanged

\* The component that calls the hooks unmounts: the cleanups of its effects
\* run.
Unmount(geoFirst) ==
    /\ mounted
    /\ pendingEffects = <<>>
    /\ mounted' = FALSE
    /\ pendingEffects' =
            LET gc == <<"geoCleanup">>
                sc == IF simHasCleanup THEN <<"simCleanup">> ELSE <<>>
            IN  IF geoFirst THEN gc \o sc ELSE sc \o gc
    /\ UNCHANGED <<stations, isActive, speedMultiplier, simPosition, currentSegment,
                   progress, intervalRef, simHasCleanup, intervals, nextTimerId,
                   isTracking, distanceToDestKm, geoPosition, geoError, accuracy,
                   watchIdRef, watches, nextWatchId, geolocation>>

SourceRoutes ==
    { <<ChennaiCentral, Chengalpattu>>,
      <<ChennaiCentral, NoCoordStation, Chengalpattu>> }

SourceInit ==
    /\ FnIdle
    /\ AlarmIdle
    /\ GeoIdle
    /\ geolocation \in BOOLEAN
    /\ stations \in SourceRoutes
    /\ isActive = FALSE
    /\ speedMultiplier = 200
    /\ simPosition = NoSample
    /\ currentSegment = 0
    /\ progress = DZero(0)
    /\ intervalRef = NULL
    /\ simHasCleanup = FALSE
    /\ intervals = {}
    /\ nextTimerId = 1
    /\ pendingEffects = <<>>

SourceNext ==
    \/ (\E src \in Sources : StartTrip(src)) /\ UNCHANGED <<apiVars, fnVars, fgVars, swVars>>
    \/ StopTrip /\ UNCHANGED <<apiVars, fnVars, fgVars, swVars>>
    \/ (\E geoFirst \in BOOLEAN : SwitchSource(geoFirst))
            /\ UNCHANGED <<apiVars, fnVars, fgVars, swVars>>
    \/ (\E d \in DistancesKm : DistanceChange(d)) /\ UNCHANGED <<apiVars, fnVars, fgVars, swVars>>
    \/ (\E geoFirst \in BOOLEAN : Unmount(geoFirst))
            /\ UNCHANGED <<apiVars, fnVars, fgVars, swVars>>
    \/ SimRunEffect
    \/ SimTickAny
    \/ (\E w \in watches, pos \in GeoSamples : GeoOnPosition(w, pos))
            /\ UNCHANGED <<apiVars, fnVars, fgVars, swVars, simVars>>
    \/ (\E w \in watches, code \in ErrorCodes : GeoOnError(w, code))
            /\ UNCHANGED <<apiVars, fnVars, fgVars, swVars, simVars>>

SpecSource == SourceInit /\ [][SourceNext]_vars

TimerIds(ts) == {t.id : t \in ts}

WatchIds(ws) == {w.id : w \in ws}

\* C10: the watch of useGeolocation and the timer of useSimulatedGeolocation
\* are never registered together, there is at most one watch and at most one
\* timer, and a step that registers a watch (a timer) starts where no timer
\* (no watch) is registered: the source before it was stopped first.
C10_OneSourceAtATime ==
    /\ [](~(watches # {} /\ intervals # {}))
    /\ [](Cardinality(watches) <= 1 /\ Cardinality(intervals) <= 1)
    /\ [][ /\ (WatchIds(watches') \ WatchIds(watches) # {}) => intervals = {}
           /\ (TimerIds(intervals') \ TimerIds(intervals) # {}) => watches = {}
         ]_vars

\* C10 witness: a trip that ran on the live watch is switching to the
\* simulation: the cleanups of the commit have run, the watch is cleared and
\* the effect that starts the timer is the next to run.
C10_Witness ==
    /\ pendingEffects \in {<<"simEffect", "geoEffect">>, <<"geoEffect", "simEffect">>}
    /\ isActive /\ ~isTracking
    /\ nextWatchId = 2
    /\ watches = {}
    /\ watchIdRef = NULL
    /\ intervals = {}

\* The trip switched from the simulation to the live watch: the timer is
\* cleared and the watch is registered.
C10_WitnessLive ==
    /\ pendingEffects = <<>>
    /\ isTracking /\ ~isActive
    /\ nextTimerId = 2
    /\ intervals = {}
    /\ Cardinality(watches) = 1

\* C17: once the effects of a commit have run, no watch is registered unless
\* isTracking is true and no timer unless isActive is true: after the end of
\* the trip (also the one that follows a sensor error), after a switch of the
\* source and after the unmount the handle of the stopped source is released;
\* and with no watch and no timer no position sample is delivered.
C17_HandlesReleased ==
    /\ []((pendingEffects = <<>> /\ ~isTracking) => watches = {})
    /\ []((pendingEffects = <<>> /\ ~isActive) => intervals = {})
    /\ []((pendingEffects = <<>> /\ ~mounted) => (watches = {} /\ intervals = {}))
    /\ [][ (watches = {} /\ intervals = {} /\ pendingEffects = <<>>
                /\ pendingEffects' = <<>>) =>
             (geoPosition' = geoPosition /\ simPosition' = simPosition)
         ]_vars

\* C17 witness: the component unmounted while the simulation was playing its
\* first segment: the timer that had delivered the second sample is cleared.
C17_Witness ==
    /\ ~mounted /\ isActive
    /\ pendingEffects = <<>>
    /\ intervalRef = 1 /\ intervals = {}
    /\ currentSegment = 0 /\ progress = StepFraction[1]

\* The trip on the live watch ended after the sensor reported that the
\* permission is denied: the watch is cleared.
C17_WitnessError ==
    /\ mounted /\ ~isTracking /\ ~isActive
    /\ pendingEffects = <<>>
    /\ geoError = ErrorMessage(1)
    /\ nextWatchId = 2 /\ watchIdRef = NULL /\ watches = {}

Steady == pendingEffects = <<>>

\* This step runs the effect of useGeolocation with isTracking true.
StartsWatch == RunEffect /\ Head(pendingEffects) = "geoEffect" /\ isTracking /\ geolocation

\* C18: at most one watch is registered, and it is the one watchIdRef holds;
\* a step that registers a watch leaves none of the watches registered
\* before it, through every start, stop, switch, unmount and change of the
\* distance.
C18_SingleWatch ==
    /\ [](Cardinality(watches) <= 1)
    /\ [](watches # {} => WatchIds(watches) = {watchIdRef})
    /\ [](watches = {} => (Steady => watchIdRef = NULL))
    /\ [][ (WatchIds(watches') \ WatchIds(watches) # {}) =>
                (watches \cap watches' = {} /\ Cardinality(watches') = 1)
         ]_vars

\* C18 witness: the watch was replaced after a change of the distance while
\* tracking: the first watch is cleared and the second is the one registered.
C18_Witness ==
    /\ Steady /\ isTracking /\ mounted
    /\ nextWatchId = 3
    /\ watchIdRef = 2
    /\ WatchIds(watches) = {2}

\* C19: while tracking, once the effects of a commit have run, the one watch
\* has the options of the bucket of the distance: enableHighAccuracy with
\* maximumAge 5000 and timeout 10000 below 50 km, and maximumAge 60000 and
\* timeout 30000 from 50 km on and at the infinite distance; a change of the
\* distance across 50 km schedules the effect, and the effect registers a new
\* watch in place of the one before.
C19_OptionsMatchBucket ==
    /\ []((Steady /\ isTracking /\ geolocation /\ mounted) =>
            \E w \in watches :
                /\ watches = {w}
                /\ IF distanceToDestKm < 50
                   THEN w.options = [enableHighAccuracy |-> TRUE, timeout |-> 10000,
                                     maximumAge |-> 5000]
                   ELSE w.options = [enableHighAccuracy |-> FALSE, timeout |-> 30000,
                                     maximumAge |-> 60000])
    /\ [][ \A d \in DistancesKm :
             (DistanceChange(d) /\ isTracking /\ ((d < 50) # (distanceToDestKm < 50))) =>
                pendingEffects' = <<"geoCleanup", "geoEffect">>
         ]_vars
    /\ [][ StartsWatch =>
             /\ WatchIds(watches') = {nextWatchId}
             /\ \A w \in watches' : w.options = OptionsFor(distanceToDestKm)
         ]_vars

\* C19 witness: tracking started at the infinite distance with low accuracy,
\* the distance fell below 50 km, and the watch now registered is the second
\* one, with high accuracy.
C19_Witness ==
    /\ Steady /\ isTracking /\ mounted
    /\ distanceToDestKm = 49
    /\ watches = {[id |-> 2, options |-> HIGH_ACCURACY_OPTIONS]}

\* C20: an error callback sets the error to the message of its code (1, 2, 3,
\* or the unknown-error message for any other code) and leaves the watch
\* registered and the position as it is; a success callback replaces the
\* position and the accuracy and clears the error, and leaves the watch
\* registered.
C20_ErrorsReportedNotFatal ==
    /\ [][ \A w \in watches, code \in ErrorCodes :
             GeoOnError(w, code) =>
                /\ geoError' =
                     (CASE code = 1 -> "Location permission denied. Please allow location access in your browser settings."
                        [] code = 2 -> "Location unavailable. Check your GPS or network connection."
                        [] code = 3 -> "Location request timed out. Retrying..."
                        [] OTHER -> "Unknown location error.")
                /\ watches' = watches /\ watchIdRef' = watchIdRef
                /\ geoPosition' = geoPosition
                /\ isTracking' = isTracking
         ]_vars
    /\ [][ \A w \in watches, pos \in GeoSamples :
             GeoOnPosition(w, pos) =>
                /\ geoPosition' = [lat |-> pos.lat, lon |-> pos.lon]
                /\ accuracy' = pos.accuracy
                /\ geoError' = NoError
                /\ watches' = watches /\ watchIdRef' = watchIdRef
         ]_vars
    /\ [](geoError \in {NoError, "Geolocation is not supported by your browser."}
            \cup {ErrorMessage(c) : c \in ErrorCodes})

\* C20 witness: the watch reported a timeout after it had delivered a sample:
\* the error is reported, the watch is still registered and the sample is
\* still the position.
C20_Witness ==
    /\ Steady /\ isTracking
    /\ geoError = "Location request timed out. Retrying..."
    /\ watches # {} /\ watchIdRef # NULL
    /\ geoPosition = [lat |-> 500, lon |-> 0]

(***************************************************************************)
(* The backend: the Express servers and route modules of the repository.   *)
(*                                                                         *)
(*   bridge      server.js of the bridge to the scraper: /api/health,      *)
(*               /api/train/:trainNo, /api/demo/:trainNo                   *)
(*   rapidapi    the server that calls RapidAPI: /api/health,              *)
(*               /api/demo/:trainNo, /api/train/:trainNo,                  *)
(*               /api/debug/:trainNo                                       *)
(*   router      the router module: GET /:trainNo                          *)
(*   controller  exports.getLiveStatus                                     *)
(*                                                                         *)
(* The segment of trainController.js with /api/train-alert/:trainNo opens  *)
(* with an import statement among require calls and calls dotenv.config()  *)
(* before dotenv is declared: it fails while it loads, registers no route  *)
(* and answers no request, so it is no server of the model.                *)
(*                                                                         *)
(* A handler that awaits the provider takes two steps: the request, which  *)
(* leaves the call to the provider pending, and the reply once the         *)
(* provider has answered or the call has failed.  Specification SpecApi.   *)
(* Coordinates are in units of 0.0001 degree; timestamps (lastUpdated)     *)
(* are left out of the bodies.                                             *)
(***************************************************************************)

Backends == {"bridge", "rapidapi", "router", "controller"}

\* What the call to the live provider meets:
\*   reachable       200, a JSON body with the stops of the train
\*   empty           200, a JSON body with an empty list of stops
\*   no-data         200, a JSON body without stops
\*   not-found       404, a JSON body without stops
\*   not-found-text  404, a body that is not JSON
\*   server-error    500, a body that is not JSON
\*   unreachable     the connection is refused (ECONNREFUSED)
\*   unknown-host    the host is not found (ENOTFOUND)
\*   timeout         no answer
ProviderStates ==
    {"reachable", "empty", "no-data", "not-found", "not-found-text", "server-error",
     "unreachable", "unknown-host", "timeout"}

\* Calls to the provider under way at once.
MaxPending == 2

\* Values of :trainNo.
TrainNos == {"12661", "12043", "00000", "1266", "126611", "abc"}

\* /^\d{5}$/.test(trainNo)
FiveDigits(trainNo) == trainNo \in {"12661", "12043", "00000"}

Stop(name, code, lat, lon, arr, dep) ==
    [name |-> name, code |-> code, lat |-> lat, lon |-> lon, arr |-> arr, dep |-> dep]

\* The array `route` of generateMockRoute.
MockRoute ==
    << Stop("Chennai Central", "MAS", 130827, 802707, "Origin", "07:10"),
       Stop("Chengalpattu", "CGL", 126921, 799765, "08:18", "08:20"),
       Stop("Villupuram Junction", "VM", 119393, 794924, "09:48", "09:53"),
       Stop("Cuddalore Port", "CUPJ", 117447, 797678, "10:22", "10:24"),
       Stop("Chidambaram", "CDM", 113993, 796934, "11:05", "11:07"),
       Stop("Mayiladuthurai Jn", "MV", 111034, 796508, "11:55", "12:00"),
       Stop("Thanjavur Junction", "TJ", 107870, 791378, "13:00", "13:05"),
       Stop("Trichy Junction", "TPJ", 108155, 786877, "14:05", "14:15"),
       Stop("Dindigul Junction", "DG", 103673, 779803, "15:18", "15:20"),
       Stop("Madurai Junction", "MDU", 99252, 781198, "16:30", "16:40"),
       Stop("Virudhunagar Jn", "VPT", 95810, 779624, "17:28", "17:30"),
       Stop("Tirunelveli Jn", "TEN", 87139, 777567, "18:55", "19:00"),
       Stop("Nagercoil Junction", "NCJ", 81833, 774119, "19:55", "20:00"),
       Stop("Kanyakumari", "CAPE", 80883, 775385, "20:30", "Terminus") >>

\* generateMockRoute numbering the stations from 1.
generateMockRoute_FromOne ==
    [i \in 1..Len(MockRoute) |->
        [index |-> i, name |-> MockRoute[i].name, code |-> MockRoute[i].code,
         arrivalTime |-> MockRoute[i].arr, departureTime |-> MockRoute[i].dep,
         delay |-> "00:00", latitude |-> MockRoute[i].lat,
         longitude |-> MockRoute[i].lon, status |-> NULL]]

\* route.map((s, index) => ({index, ...})): array index i - 1 of the i-th stop.
generateMockRoute ==
    [i \in 1..Len(MockRoute) |->
        [index |-> i - 1, name |-> MockRoute[i].name, code |-> MockRoute[i].code,
         arrivalTime |-> MockRoute[i].arr, departureTime |-> MockRoute[i].dep,
         delay |-> "00:00", latitude |-> MockRoute[i].lat,
         longitude |-> MockRoute[i].lon, status |-> NULL]]

\* The stops the live provider has for a train, each with a name and a code
\* and without times, delay and type: one has no coordinates and one lies on
\* the equator.
ProviderStops ==
    << [name |-> "Chennai Central", code |-> "MAS", lat |-> 130827, lon |-> 802707],
       [name |-> "Tambaram", code |-> "TBM", lat |-> NULL, lon |-> NULL],
       [name |-> "Pontianak", code |-> "PNK", lat |-> 0, lon |-> 1093333] >>

\* The outcome of the call to the provider in state p: an HTTP answer with
\* its status and body, or a failure with the code and the message of its
\* Error (the message of a socket or DNS error is the system call, the code
\* and the address).  The provider of server b is the host of the options of
\* fetchLiveTrainStatus for the RapidAPI server and the scraper's URL for the
\* others.
ProviderAnswer(b, p, trainNo) ==
    LET host == IF b = "rapidapi" THEN "irctc-train-api.p.rapidapi.com" ELSE "localhost"
        address == IF b = "rapidapi" THEN "104.18.0.1:443" ELSE "127.0.0.1:8000"
        Answer(status, json, hasEvents, events) ==
            [failure |-> "", status |-> status, json |-> json,
             hasEvents |-> hasEvents, events |-> events,
             train_number |-> IF hasEvents THEN trainNo ELSE "", message |-> ""]
        Failure(code, message) ==
            [failure |-> code, message |-> message, status |-> 0, json |-> FALSE,
             hasEvents |-> FALSE, events |-> <<>>, train_number |-> ""]
    IN  CASE p = "reachable" -> Answer(200, TRUE, TRUE, ProviderStops)
          [] p = "empty" -> Answer(200, TRUE, TRUE, <<>>)
          [] p = "no-data" -> Answer(200, TRUE, FALSE, <<>>)
          [] p = "not-found" -> Answer(404, TRUE, FALSE, <<>>)
          [] p = "not-found-text" -> Answer(404, FALSE, FALSE, <<>>)
          [] p = "server-error" -> Answer(500, FALSE, FALSE, <<>>)
          [] p = "unreachable" ->
                Failure("ECONNREFUSED", "connect ECONNREFUSED " \o address)
          [] p = "unknown-host" ->
                Failure("ENOTFOUND", "getaddrinfo ENOTFOUND " \o host)
          [] p = "timeout" -> Failure("ECONNABORTED", "timeout of 15000ms exceeded")

\* await axios.get(url) resolves: the provider answered with a status 2xx.
AxiosResolves(ans) == ans.failure = "" /\ ans.status = 200

\* fetchLiveTrainStatus resolves: the body of the answer, whatever its status,
\* is JSON.
FetchResolves(ans) == ans.failure = "" /\ ans.json

\* x || null for a coordinate, with or without parseFloat: a missing value,
\* and 0, give null.
ParseFloatOrNull(x) == IF x = NULL \/ x = 0 THEN NULL ELSE x

\* (data.events || []).map((stop, index) => ({index, ...})) of the bridge.
LiveStations(stops) ==
    [i \in 1..Len(stops) |->
        [index |-> i - 1, name |-> stops[i].name, code |-> stops[i].code,
         arrivalTime |-> "N/A", departureTime |-> "N/A", delay |-> "00:00",
         latitude |-> ParseFloatOrNull(stops[i].lat),
         longitude |-> ParseFloatOrNull(stops[i].lon), status |-> NULL]]

\* stops.map((s, i) => ({index: i, ...})) of the RapidAPI server.
RapidStations(stops) ==
    [i \in 1..Len(stops) |->
        [index |-> i - 1, name |-> stops[i].name, code |-> stops[i].code,
         arrivalTime |-> "N/A", departureTime |-> "N/A", delay |-> "0",
         latitude |-> ParseFloatOrNull(stops[i].lat),
         longitude |-> ParseFloatOrNull(stops[i].lon)]]

\* events.map(event => ({name, code, status, delay, latitude, longitude})) of
\* the router; status and delay are undefined and left out of the JSON.
RouterStations(stops) ==
    [i \in 1..Len(stops) |->
        [name |-> stops[i].name, code |-> stops[i].code,
         latitude |-> ParseFloatOrNull(stops[i].lat),
         longitude |-> ParseFloatOrNull(stops[i].lon)]]

\* data.events.map((stop) => ({station, code, ..., lat, lng})) of getLiveStatus.
ControllerRoute(stops) ==
    [i \in 1..Len(stops) |->
        [station |-> stops[i].name, code |-> stops[i].code,
         arrivalTime |-> "N/A", departureTime |-> "N/A", delay |-> "00:00",
         lat |-> stops[i].lat, lng |-> stops[i].lon]]

\* res.status(status).json(body)
Reply(status, body) == [status |-> status, body |-> body]

\* The bridge, GET /api/train/:trainNo, from the await on.
BridgeTrain(trainNo, ans) ==
    IF AxiosResolves(ans)
        THEN Reply(200, [success |-> TRUE,
                         trainNumber |-> IF ans.train_number # "" THEN ans.train_number
                                         ELSE trainNo,
                         trainName |-> "Train " \o trainNo,
                         stations |-> LiveStations(ans.events)])
    ELSE IF ans.failure = "ECONNREFUSED"
        THEN Reply(503, [success |-> FALSE,
                         error |-> "Python TrainTrack scraper is offline. Start it on port 8000.",
                         fallback |-> TRUE])
    ELSE IF ans.failure = "" /\ ans.status = 404
        THEN Reply(404, [success |-> FALSE, error |-> "Train " \o trainNo \o " not found."])
    ELSE Reply(500, [success |-> FALSE, error |-> "Failed to fetch train data."])

\* The RapidAPI server, GET /api/train/:trainNo, from the await on.
RapidTrain(trainNo, ans) ==
    IF ~FetchResolves(ans)
        THEN Reply(500, [success |-> FALSE,
                         error |-> IF ans.failure = "" THEN "Failed to parse RapidAPI response"
                                   ELSE ans.message])
    ELSE IF Len(ans.events) = 0
        THEN Reply(404, [success |-> FALSE, error |-> "No data for train " \o trainNo \o ".",
                         raw |-> [hasStations |-> ans.hasEvents, stations |-> ans.events]])
    ELSE Reply(200, [success |-> TRUE, trainNumber |-> trainNo,
                     trainName |-> "Train " \o trainNo,
                     stations |-> RapidStations(ans.events)])

\* The router, GET /:trainNo, from the await on: events.map throws a
\* TypeError when the body has no events.
RouterTrain(trainNo, ans) ==
    IF AxiosResolves(ans) /\ ans.hasEvents
        THEN Reply(200, [trainNumber |-> ans.train_number,
                         stations |-> RouterStations(ans.events)])
    ELSE IF ans.failure = "ECONNREFUSED"
        THEN Reply(503, [error |-> "Python Scraper (TrainTrack) is offline. Start it on port 8000."])
    ELSE Reply(500, [error |-> "Failed to fetch train data."])

\* exports.getLiveStatus, from the await on.
getLiveStatus(trainNo, ans) ==
    IF ~AxiosResolves(ans)
        THEN Reply(500, [message |-> "Error connecting to scraper service"])
    ELSE IF ~ans.hasEvents
        THEN Reply(404, [message |-> "Train data not found"])
    ELSE Reply(200, [trainNumber |-> ans.train_number, route |-> ControllerRoute(ans.events)])

\* GET /api/debug/:trainNo, from the await on.
Debug(trainNo, ans) ==
    IF ~FetchResolves(ans)
        THEN Reply(500, [error |-> IF ans.failure = "" THEN "Failed to parse RapidAPI response"
                                   ELSE ans.message])
    ELSE Reply(200, [status |-> ans.status,
                     data |-> [hasStations |-> ans.hasEvents, stations |-> ans.events]])

\* The routes of each server whose handler awaits the provider.
LiveRoutes(b) ==
    CASE b = "bridge" -> {"train"}
      [] b = "rapidapi" -> {"train", "debug"}
      [] b = "router" -> {"train"}
      [] b = "controller" -> {"status"}

\* GET /api/health
HealthRequest ==
    /\ backend \in {"bridge", "rapidapi"}
    /\ response' =
        IF backend = "bridge"
        THEN Reply(200, [status |-> "Backend bridge is running", port |-> 5000])
        ELSE Reply(200, [status |-> "Backend running",
                         rapidapi |-> IF apiKey THEN "configured" ELSE "missing"])
    /\ UNCHANGED <<backend, provider, apiKey, pending>>

\* GET /api/demo/:trainNo
DemoRequest(trainNo) ==
    /\ backend \in {"bridge", "rapidapi"}
    /\ response' =
        Reply(200, [success |-> TRUE, trainNumber |-> trainNo,
                    trainName |-> IF backend = "bridge"
                                  THEN "Chennai Kanyakumari Cape Express (" \o trainNo \o ")"
                                  ELSE "Chennai Kanyakumari Cape Express",
                    stations |-> generateMockRoute, isDemo |-> TRUE])
    /\ UNCHANGED <<backend, provider, apiKey, pending>>

\* A request to a route whose handler calls the provider, up to the await:
\* the train number is tested by the bridge, the RapidAPI server's
\* /api/train and the router, and the API key by the RapidAPI server's
\* /api/train.
LiveRequest(route, trainNo) ==
    /\ route \in LiveRoutes(backend)
    /\ IF route = "train" /\ ~FiveDigits(trainNo)
       THEN /\ response' =
                Reply(400, IF backend = "rapidapi"
                           THEN [success |-> FALSE, error |-> "Train number must be 5 digits."]
                           ELSE [error |-> "Invalid train number. Must be 5 digits."])
            /\ UNCHANGED pending
       ELSE IF route = "train" /\ backend = "rapidapi" /\ ~apiKey
       THEN /\ response' =
                Reply(503, [success |-> FALSE, error |-> "No RapidAPI key configured."])
            /\ UNCHANGED pending
       ELSE /\ Cardinality(pending) < MaxPending
            /\ [route |-> route, trainNo |-> trainNo] \notin pending
            /\ pending' = pending \cup {[route |-> route, trainNo |-> trainNo]}
            /\ UNCHANGED response
    /\ UNCHANGED <<backend, provider, apiKey>>

\* The call to the provider of the pending request r settles and the handler
\* runs to its end.  Only the bridge sets a timeout (15000 ms): the other
\* handlers wait as long as the provider does not answer.
LiveReply(r) ==
    /\ r \in pending
    /\ provider = "timeout" => backend = "bridge"
    /\ LET ans == ProviderAnswer(backend, provider, r.trainNo)
       IN  response' =
            CASE r.route = "debug" -> Debug(r.trainNo, ans)
              [] r.route = "status" -> getLiveStatus(r.trainNo, ans)
              [] r.route = "train" /\ backend = "bridge" -> BridgeTrain(r.trainNo, ans)
              [] r.route = "train" /\ backend = "rapidapi" -> RapidTrain(r.trainNo, ans)
              [] r.route = "train" /\ backend = "router" -> RouterTrain(r.trainNo, ans)
    /\ pending' = pending \ {r}
    /\ UNCHANGED <<backend, provider, apiKey>>

\* The live provider changes its state.
ProviderChange(p) ==
    /\ p # provider
    /\ provider' = p
    /\ UNCHANGED <<backend, apiKey, response, pending>>

ApiInit ==
    /\ FnIdle
    /\ HooksIdle
    /\ FrontIdle
    /\ backend \in Backends
    /\ provider \in ProviderStates
    /\ apiKey \in BOOLEAN
    /\ response = NoResponse
    /\ pending = {}

ApiNext ==
    \/ HealthRequest /\ UNCHANGED <<fnVars, fgVars, swVars, hookVars>>
    \/ (\E t \in TrainNos : DemoRequest(t)) /\ UNCHANGED <<fnVars, fgVars, swVars, hookVars>>
    \/ (\E route \in LiveRoutes(backend), t \in TrainNos : LiveRequest(route, t))
            /\ UNCHANGED <<fnVars, fgVars, swVars, hookVars>>
    \/ (\E r \in pending : LiveReply(r)) /\ UNCHANGED <<fnVars, fgVars, swVars, hookVars>>
    \/ (\E p \in ProviderStates : ProviderChange(p))
            /\ UNCHANGED <<fnVars, fgVars, swVars, hookVars>>

SpecApi == ApiInit /\ [][ApiNext]_vars

\* C15: the response to a demo request is a success in every state of the
\* provider, with or without an API key and while calls to the provider are
\* pending, and for every train number; its stations are the 14 stations of
\* the fixed route in travel order, numbered 0 to 13, each with its
\* coordinates.
C15_DemoAlwaysSucceeds ==
    [][ \A t \in TrainNos :
          DemoRequest(t) =>
            /\ response'.status = 200
            /\ response'.body.success /\ response'.body.isDemo
            /\ response'.body.trainNumber = t
            /\ Len(response'.body.stations) = 14
            /\ \A i \in 1..14 :
                  LET st == response'.body.stations[i]
                  IN  /\ st.index = i - 1
                      /\ st.name = MockRoute[i].name
                      /\ st.latitude = MockRoute[i].lat /\ st.latitude # NULL
                      /\ st.longitude = MockRoute[i].lon /\ st.longitude # NULL
            /\ \A i \in 1..13 :
                  response'.body.stations[i].index < response'.body.stations[i + 1].index
            /\ response'.body.stations[1].name = "Chennai Central"
            /\ response'.body.stations[14].name = "Kanyakumari"
      ]_vars

\* C15 witness: the demo route was served for a train number that is not
\* five digits, while the provider refuses the connection, no API key is set
\* and a call to the provider is pending.
C15_Witness ==
    /\ response.status = 200
    /\ "isDemo" \in DOMAIN response.body
    /\ response.body.isDemo
    /\ response.body.trainNumber = "abc"
    /\ Len(response.body.stations) = 14
    /\ provider = "unreachable"
    /\ backend = "rapidapi" /\ ~apiKey
    /\ pending # {}

=============================================================================
